---- MODULE Spec2Model ----
(***************************************************************************)
(* timetrackd: the sampling and change-detection loop of src/main.rs.      *)
(*                                                                         *)
(* Text is a sequence of one-character strings.  An unsigned integer (u32, *)
(* u64, u128) is its canonical sequence of decimal digits 0..9 (<<0>> for  *)
(* zero, no leading zero otherwise), so that the widths of the source are  *)
(* kept exactly: 2^32, 2^64 and 2^128 do not fit TLC's integers.           *)
(***************************************************************************)
EXTENDS Integers, Sequences, FiniteSets, TLC

VARIABLES
    pc,           \* position of main: "start", the probe about to run, "sleep", "panicked"
    config,       \* Option<Config>: <<>> before load_config returned, <<c>> after
    desktop,      \* what the five external commands answer during the current tick
    loc,          \* the locals of get_sample bound so far in the current tick
    invoked,      \* the child processes spawned so far in the current tick
    result,       \* Option<Result<Sample, SampleError>>: what get_sample last returned
    last_sample,  \* Option<Sample>: <<>> is None, <<s>> is Some(s)
    stdout,       \* the lines written to standard output, oldest first
    stderr,       \* the lines written to standard error, oldest first
    sleeps,       \* the number of thread::sleep calls made so far
    slept,        \* the seconds each thread::sleep call was asked to sleep, oldest first
    host          \* Option<ConfigEnv>: what load_config found on the host

vars == <<pc, config, desktop, loc, invoked, result, last_sample, stdout, stderr, sleeps,
          slept, host>>

\* The number of sleeps after which the model stops following the loop.
MaxSleeps == 2

--------------------------------------------------------------------------
(* Text *)

None == <<>>
Some(x) == <<x>>

\* An element of a byte sequence that stands for a byte no UTF-8 text holds.
BadByte == "<ff>"

\* The characters U+000B, U+0085, U+00A0 and U+1680.
VerticalTab == ""
NextLine == ""
NoBreakSpace == " "
OghamSpaceMark == " "

\* char::is_whitespace, the White_Space property: U+0009 to U+000D, U+0020,
\* U+0085, U+00A0, U+1680. Its other members (U+2000 to U+200A, U+2028,
\* U+2029, U+202F, U+205F, U+3000) are characters no string of this module
\* can hold, so no text of the model contains them.
WhiteSpace ==
    {"\t", "\n", VerticalTab, "\f", "\r", " ", NextLine, NoBreakSpace, OghamSpaceMark}

RECURSIVE TrimStart(_)
TrimStart(s) ==
    IF s # <<>> /\ Head(s) \in WhiteSpace THEN TrimStart(Tail(s)) ELSE s

RECURSIVE TrimEnd(_)
TrimEnd(s) ==
    IF s # <<>> /\ s[Len(s)] \in WhiteSpace
    THEN TrimEnd(SubSeq(s, 1, Len(s) - 1)) ELSE s

\* str::trim
Trim(s) == TrimEnd(TrimStart(s))

\* str::contains
Contains(s, pat) ==
    \E i \in 0 .. (Len(s) - Len(pat)) : SubSeq(s, i + 1, i + Len(pat)) = pat

--------------------------------------------------------------------------
(* Unsigned integers as canonical decimal digit sequences *)

DigitChars == <<"0", "1", "2", "3", "4", "5", "6", "7", "8", "9">>

IsDigitChar(c) == \E d \in 0 .. 9 : DigitChars[d + 1] = c

\* char::to_digit(10)
DigitVal(c) == CHOOSE d \in 0 .. 9 : DigitChars[d + 1] = c

\* The digits without their leading zeros; <<0>> when all are zero.
StripZeros(ds) ==
    LET nonzero == {k \in 1 .. Len(ds) : ds[k] # 0}
    IN  IF nonzero = {} THEN (IF ds = <<>> THEN <<>> ELSE <<0>>)
        ELSE SubSeq(ds, CHOOSE k \in nonzero : \A j \in nonzero : k <= j, Len(ds))

\* a < b on canonical digit sequences
NumLess(a, b) ==
    \/ Len(a) < Len(b)
    \/ /\ Len(a) = Len(b)
       /\ \E i \in 1 .. Len(a) :
            /\ a[i] < b[i]
            /\ \A j \in 1 .. (i - 1) : a[j] = b[j]

\* a > b
NumGreater(a, b) == NumLess(b, a)

\* u32::MAX = 4294967295
U32Max == <<4, 2, 9, 4, 9, 6, 7, 2, 9, 5>>

\* u64::MAX = 18446744073709551615
U64Max == <<1, 8, 4, 4, 6, 7, 4, 4, 0, 7, 3, 7, 0, 9, 5, 5, 1, 6, 1, 5>>

\* i64::MAX = 9223372036854775807
I64Max == <<9, 2, 2, 3, 3, 7, 2, 0, 3, 6, 8, 5, 4, 7, 7, 5, 8, 0, 7>>

\* u128::MAX = 340282366920938463463374607431768211455
U128Max ==
    <<3, 4, 0, 2, 8, 2, 3, 6, 6, 9, 2, 0, 9, 3, 8, 4, 6, 3, 4, 6,
      3, 3, 7, 4, 6, 0, 7, 4, 3, 1, 7, 6, 8, 2, 1, 1, 4, 5, 5>>

\* The digit loop of from_str_radix.  It reads the characters in order and
\* stops at the first one that is no digit (InvalidDigit) or that takes the
\* value read so far above max (PosOverflow); at one character the digit test
\* comes first.  The value read after k digits is that of the first k.
ParseDigits(s, max) ==
    LET n == Len(s)
        ValueOf(k) == StripZeros([j \in 1 .. k |-> DigitVal(s[j])])
        bad == {k \in 1 .. n : ~IsDigitChar(s[k])}
        read == {k \in 1 .. n : \A j \in bad : k < j}
        over == {k \in read : NumGreater(ValueOf(k), max)}
    IN  IF over # {} THEN [ok |-> FALSE, val |-> <<0>>, err |-> "PosOverflow"]
        ELSE IF bad # {} THEN [ok |-> FALSE, val |-> <<0>>, err |-> "InvalidDigit"]
        ELSE [ok |-> TRUE, val |-> ValueOf(n), err |-> "none"]

\* <unsigned>::from_str: the empty text, a lone sign, a minus sign, a
\* non-digit and a value above max are errors; one leading "+" is accepted.
ParseUnsigned(s, max) ==
    IF s = <<>> THEN [ok |-> FALSE, val |-> <<0>>, err |-> "Empty"]
    ELSE IF s = <<"+">> \/ s = <<"-">>
         THEN [ok |-> FALSE, val |-> <<0>>, err |-> "InvalidDigit"]
         ELSE IF Head(s) = "+" THEN ParseDigits(Tail(s), max)
              ELSE ParseDigits(s, max)

\* Display of an unsigned integer ("{}")
FormatUnsigned(n) == [k \in 1 .. Len(n) |-> DigitChars[n[k] + 1]]

\* Duration::from_secs(secs).as_millis(): secs * 1000 in u128
AsMillis(secs) == IF secs = <<0>> THEN <<0>> ELSE secs \o <<0, 0, 0>>

--------------------------------------------------------------------------
(* The command probe *)

\* What one child process does: spawn is "Ok", or the io::ErrorKind that
\* Command::output fails with ("NotFound" when the program is missing,
\* "PermissionDenied" when it cannot be executed); status is its exit
\* status; bytes is what it wrote to its standard output.
Answer(spawn, status, bytes) ==
    [spawned |-> spawn = "Ok", io |-> spawn, status |-> status, bytes |-> bytes]

\* SampleError
SampleErr(kind, detail) == [kind |-> kind, detail |-> detail]

NoErr == SampleErr("none", "none")

\* String::from_utf8
ValidUtf8(bytes) == \A i \in 1 .. Len(bytes) : bytes[i] # BadByte

\* Mutant of get_command_output: output that is not UTF-8 is reported as an
\* I/O error.
GetCommandOutputIoOnly(o) ==
    IF ~o.spawned
    THEN [ok |-> FALSE, val |-> <<>>, err |-> SampleErr("Io", o.io)]
    ELSE IF ~ValidUtf8(o.bytes)
         THEN [ok |-> FALSE, val |-> <<>>, err |-> SampleErr("Io", "InvalidData")]
         ELSE [ok |-> TRUE, val |-> Trim(o.bytes), err |-> NoErr]

\* Mutant of get_command_output: a child that exits with a non-zero status
\* is an I/O error.
GetCommandOutputChecksStatus(o) ==
    IF ~o.spawned
    THEN [ok |-> FALSE, val |-> <<>>, err |-> SampleErr("Io", o.io)]
    ELSE IF o.status # 0
         THEN [ok |-> FALSE, val |-> <<>>, err |-> SampleErr("Io", "Other")]
         ELSE IF ~ValidUtf8(o.bytes)
              THEN [ok |-> FALSE, val |-> <<>>, err |-> SampleErr("FromUtf8", "Utf8Error")]
              ELSE [ok |-> TRUE, val |-> Trim(o.bytes), err |-> NoErr]

\* get_command_output: the trimmed standard output of the child, or the
\* first error among spawning and decoding.  The exit status is not read.
get_command_output(o) ==
    IF ~o.spawned
    THEN [ok |-> FALSE, val |-> <<>>, err |-> SampleErr("Io", o.io)]
    ELSE IF ~ValidUtf8(o.bytes)
         THEN [ok |-> FALSE, val |-> <<>>, err |-> SampleErr("FromUtf8", "Utf8Error")]
         ELSE [ok |-> TRUE, val |-> Trim(o.bytes), err |-> NoErr]

\* One spawned child: Command::new(command).args(args).env("LC_ALL", "C")
Invocation(command, args) ==
    [command |-> command, args |-> args, env |-> [LC_ALL |-> "C"]]

Xdotool == <<"x", "d", "o", "t", "o", "o", "l">>
GetActiveWindow ==
    <<"g", "e", "t", "a", "c", "t", "i", "v", "e", "w", "i", "n", "d", "o", "w">>
GetWindowName == <<"g", "e", "t", "w", "i", "n", "d", "o", "w", "n", "a", "m", "e">>
GetWindowPid == <<"g", "e", "t", "w", "i", "n", "d", "o", "w", "p", "i", "d">>
Ps == <<"p", "s">>
DashP == <<"-", "p">>
DashO == <<"-", "o">>
CommEq == <<"c", "o", "m", "m", "=">>
GnomeScreensaverCommand ==
    <<"g", "n", "o", "m", "e", "-", "s", "c", "r", "e", "e", "n", "s", "a", "v", "e", "r",
      "-", "c", "o", "m", "m", "a", "n", "d">>
DashQ == <<"-", "q">>
Xprintidle == <<"x", "p", "r", "i", "n", "t", "i", "d", "l", "e">>

TitleProbe == Invocation(Xdotool, <<GetActiveWindow, GetWindowName>>)
PidProbe == Invocation(Xdotool, <<GetActiveWindow, GetWindowPid>>)
NameProbe(pid_str) == Invocation(Ps, <<DashP, pid_str, DashO, CommEq>>)
SaverProbe == Invocation(GnomeScreensaverCommand, <<DashQ>>)
IdleProbe == Invocation(Xprintidle, <<>>)

--------------------------------------------------------------------------
(* The sampler *)

\* struct Sample
Sample(window_title, pid, process_name, screensaver_active, idle) ==
    [window_title |-> window_title, pid |-> pid, process_name |-> process_name,
     screensaver_active |-> screensaver_active, idle |-> idle]

Inactive == <<"i", "n", "a", "c", "t", "i", "v", "e">>

\* Mutant of ScreensaverActive: the text has to say "active" to count as active.
ScreensaverActivePositive(text) ==
    Contains(text, <<"a", "c", "t", "i", "v", "e">>) /\ ~Contains(text, Inactive)

\* let screensaver_active = !<text>.contains("inactive")
ScreensaverActive(text) == ~Contains(text, Inactive)

\* Mutant of IsIdle: the comparison is not strict.
IsIdleNotStrict(idle_time, sample_interval) ==
    ~NumLess(idle_time, AsMillis(sample_interval))

\* let idle = idle_time > sample_interval.as_millis()
IsIdle(idle_time, sample_interval) == NumGreater(idle_time, AsMillis(sample_interval))

\* let pid: u32 = pid_str.parse()?
ParsePid(pid_str) == ParseUnsigned(pid_str, U32Max)

\* let idle_time: u128 = <text>.parse()?
ParseIdleTime(text) == ParseUnsigned(text, U128Max)

\* The locals of get_sample before its first let.
NoLocals ==
    [window_title |-> <<>>, pid_str |-> <<>>, pid |-> <<0>>, process_name |-> <<>>,
     screensaver_active |-> FALSE]

\* Result<Sample, SampleError>
Ok(sample) == [ok |-> TRUE, sample |-> Some(sample), err |-> NoErr]
Err(e) == [ok |-> FALSE, sample |-> None, err |-> e]

--------------------------------------------------------------------------
(* Configuration *)

\* struct Config
Config(database_path, database_type, sample_interval) ==
    [database_path |-> database_path, database_type |-> database_type,
     sample_interval |-> sample_interval]

\* A toml::Value: an integer is an i64 given by its sign and magnitude.
TomlInteger(neg, mag) == [type |-> "integer", neg |-> neg, mag |-> mag, str |-> <<>>]
TomlString(str) == [type |-> "string", neg |-> FALSE, mag |-> <<0>>, str |-> str]
TomlFloat(neg, mag) == [type |-> "float", neg |-> neg, mag |-> mag, str |-> <<>>]

\* The top-level table of the file: each key absent (None) or Some(value).
TomlTable(sample_interval, database_path, database_type) ==
    [sample_interval |-> sample_interval, database_path |-> database_path,
     database_type |-> database_type]

\* What load_config finds on the host: dirs::config_dir(), dirs::home_dir(),
\* whether the file exists, whether it can be read, and its parsed content
\* (None when it is not TOML).
ConfigEnv(config_dir, home_dir, is_file, readable, toml) ==
    [config_dir |-> config_dir, home_dir |-> home_dir, is_file |-> is_file,
     readable |-> readable, toml |-> toml]

\* PathBuf::join: an absolute name replaces dir; otherwise name is appended,
\* after a separator unless dir is empty or ends with one.
Join(dir, name) ==
    IF name # <<>> /\ name[1] = "/" THEN name
    ELSE IF dir = <<>> \/ dir[Len(dir)] = "/" THEN dir \o name
    ELSE dir \o <<"/">> \o name

DbFileName == <<".", "t", "i", "m", "e", "t", "r", "a", "c", "k", "d", ".", "d", "b">>

DefaultSampleInterval == <<5>>

\* Config::default(), for a home directory that resolved
ConfigDefault(home) == Config(Join(home, DbFileName), "Sqlite", DefaultSampleInterval)

\* Mutant of parse_u64: a negative integer is clamped to 0.
ParseU64Clamped(value) ==
    IF value.type # "integer"
    THEN None
    ELSE Some(IF value.neg THEN <<0>> ELSE value.mag)

\* parse_u64: Some(value as u64) for a non-negative integer, otherwise None
parse_u64(value) ==
    IF value.type # "integer" \/ (value.neg /\ value.mag # <<0>>)
    THEN None
    ELSE Some(value.mag)

\* parse_path
parse_path(value) == IF value.type # "string" THEN None ELSE Some(value.str)

SqliteName == <<"s", "q", "l", "i", "t", "e">>

\* parse_database_type
parse_database_type(value) ==
    IF value.type # "string" THEN None
    ELSE IF value.str = SqliteName THEN Some("Sqlite") ELSE None

LoadOk(c, warned) == [outcome |-> "Ok", config |-> Some(c), err |-> "none", warned |-> warned]
LoadErr(e) == [outcome |-> "Err", config |-> None, err |-> e, warned |-> FALSE]
LoadPanic(msg) == [outcome |-> "Panic", config |-> None, err |-> msg, warned |-> FALSE]

\* Mutant of OverrideFromTable: a file that gives database_path puts
\* sample_interval back to its default.
OverrideResetsOthers(c, t) ==
    LET si == IF t.sample_interval = None THEN Some(c.sample_interval)
              ELSE parse_u64(t.sample_interval[1])
        dp == IF t.database_path = None THEN Some(c.database_path)
              ELSE parse_path(t.database_path[1])
        dt == IF t.database_type = None THEN Some(c.database_type)
              ELSE parse_database_type(t.database_type[1])
    IN  IF si = None
        THEN LoadErr("ParseError: sample_interval has to be a positive integer")
        ELSE IF dp = None
             THEN LoadErr("ParseError: database_path must be a filesystem path")
             ELSE IF dt = None
                  THEN LoadErr("ParseError: database_type must be 'sqlite'")
                  ELSE LoadOk(Config(dp[1], dt[1],
                                     IF t.database_path = None THEN si[1]
                                     ELSE c.sample_interval), FALSE)

\* The body of `if config_path.is_file()` once the file is parsed: the three
\* keys in order, each overriding its field or ending the load.
OverrideFromTable(c, t) ==
    LET si == IF t.sample_interval = None THEN Some(c.sample_interval)
              ELSE parse_u64(t.sample_interval[1])
        dp == IF t.database_path = None THEN Some(c.database_path)
              ELSE parse_path(t.database_path[1])
        dt == IF t.database_type = None THEN Some(c.database_type)
              ELSE parse_database_type(t.database_type[1])
    IN  IF si = None
        THEN LoadErr("ParseError: sample_interval has to be a positive integer")
        ELSE IF dp = None
             THEN LoadErr("ParseError: database_path must be a filesystem path")
             ELSE IF dt = None
                  THEN LoadErr("ParseError: database_type must be 'sqlite'")
                  ELSE LoadOk(Config(dp[1], dt[1], si[1]), FALSE)

\* load_config
load_config(env) ==
    IF env.config_dir = None THEN LoadErr("ConfigDirError")
    ELSE IF env.home_dir = None THEN LoadPanic("Could not get home directory!")
    ELSE LET c == ConfigDefault(env.home_dir[1])
         IN  IF ~env.is_file THEN LoadOk(c, TRUE)
             ELSE IF ~env.readable THEN LoadErr("Io")
             ELSE IF env.toml = None THEN LoadErr("TomlError")
             ELSE OverrideFromTable(c, env.toml[1])

\* A run of characters with consecutive code points, from the code point
\* of its first.
Run(first, chars) == [first |-> first, chars |-> chars]

\* The characters of the Basic Multilingual Plane that a string of this
\* module can hold and that the Debug form of a str writes as \u{hex}: those
\* that are not printable (general categories Cc, Cf, Co, Cn, Zl, Zp and Zs
\* other than the space) and those with the Grapheme_Extend property, by
\* the Unicode tables of the standard library of rustc 1.95.0; \t, \r and
\* \n, which get a backslash, are not among them.
UnicodeEscaped ==
    <<
      Run(1, <<"", "", "", "", "", "", "", "">>),
      Run(11, <<"", "\f">>),
      Run(14, <<"", "", "", "", "", "", "", "", "", "", "", "", "", "", "", "",
                "", "">>),
      Run(127, <<"", "", "", "", "", "", "", "", "", "", "", "", "", "", "", "",
                 "", "", "", "", "", "", "", "", "", "", "", "", "", "", "", "",
                 "", " ">>),
      Run(173, <<"­">>),
      Run(896, <<"΀", "΁", "΂", "΃">>),
      Run(907, <<"΋">>),
      Run(909, <<"΍">>),
      Run(930, <<"΢">>),
      Run(1155, <<"҃", "҄", "҅", "҆", "҇", "҈", "҉">>),
      Run(1419, <<"֋", "֌">>),
      Run(1424, <<"֐", "֑", "֒", "֓", "֔", "֕", "֖", "֗", "֘", "֙", "֚", "֛", "֜", "֝", "֞", "֟",
                  "֠", "֡", "֢", "֣", "֤", "֥", "֦", "֧", "֨", "֩", "֪", "֫", "֬", "֭", "֮", "֯",
                  "ְ", "ֱ", "ֲ", "ֳ", "ִ", "ֵ", "ֶ", "ַ", "ָ", "ֹ", "ֺ", "ֻ", "ּ", "ֽ">>),
      Run(1471, <<"ֿ">>),
      Run(1473, <<"ׁ", "ׂ">>),
      Run(1476, <<"ׄ", "ׅ">>),
      Run(1479, <<"ׇ", "׈", "׉", "׊", "׋", "׌", "׍", "׎", "׏">>),
      Run(1515, <<"׫", "׬", "׭", "׮">>),
      Run(1525, <<"׵", "׶", "׷", "׸", "׹", "׺", "׻", "׼", "׽", "׾", "׿">>),
      Run(1750, <<"ۖ", "ۗ", "ۘ", "ۙ", "ۚ", "ۛ", "ۜ", "۝">>),
      Run(1759, <<"۟", "۠", "ۡ", "ۢ", "ۣ", "ۤ">>),
      Run(1767, <<"ۧ", "ۨ">>),
      Run(1770, <<"۪", "۫", "۬", "ۭ">>),
      Run(1958, <<"ަ", "ާ", "ި", "ީ", "ު", "ޫ", "ެ", "ޭ", "ޮ", "ޯ", "ް">>),
      Run(1970, <<"޲", "޳", "޴", "޵", "޶", "޷", "޸", "޹", "޺", "޻", "޼", "޽", "޾", "޿">>),
      Run(2027, <<"߫", "߬", "߭", "߮", "߯", "߰", "߱", "߲", "߳">>),
      Run(2043, <<"߻", "߼", "߽">>),
      Run(2192, <<"࢐", "࢑", "࢒", "࢓", "࢔", "࢕", "࢖", "ࢗ", "࢘", "࢙", "࢚", "࢛", "࢜", "࢝", "࢞", "࢟">>),
      Run(2250, <<"࣊", "࣋", "࣌", "࣍", "࣎", "࣏", "࣐", "࣑", "࣒", "࣓", "ࣔ", "ࣕ", "ࣖ", "ࣗ", "ࣘ", "ࣙ",
                  "ࣚ", "ࣛ", "ࣜ", "ࣝ", "ࣞ", "ࣟ", "࣠", "࣡", "࣢", "ࣣ", "ࣤ", "ࣥ", "ࣦ", "ࣧ", "ࣨ", "ࣩ",
                  "࣪", "࣫", "࣬", "࣭", "࣮", "࣯", "ࣰ", "ࣱ", "ࣲ", "ࣳ", "ࣴ", "ࣵ", "ࣶ", "ࣷ", "ࣸ", "ࣹ",
                  "ࣺ", "ࣻ", "ࣼ", "ࣽ", "ࣾ", "ࣿ">>),
      Run(2433, <<"ঁ">>),
      Run(2436, <<"঄">>),
      Run(2445, <<"঍", "঎">>),
      Run(2449, <<"঑", "঒">>),
      Run(2473, <<"঩">>),
      Run(2481, <<"঱">>),
      Run(2483, <<"঳", "঴", "঵">>),
      Run(2490, <<"঺", "঻", "়">>),
      Run(2494, <<"া">>),
      Run(2497, <<"ু", "ূ", "ৃ", "ৄ", "৅", "৆">>),
      Run(2505, <<"৉", "৊">>),
      Run(2509, <<"্">>),
      Run(2511, <<"৏", "৐", "৑", "৒", "৓", "৔", "৕", "৖", "ৗ", "৘", "৙", "৚", "৛">>),
      Run(2526, <<"৞">>),
      Run(2530, <<"ৢ", "ৣ", "৤", "৥">>),
      Run(2558, <<"৾", "৿">>),
      Run(2688, <<"઀", "ઁ", "ં">>),
      Run(2692, <<"઄">>),
      Run(2702, <<"઎">>),
      Run(2706, <<"઒">>),
      Run(2729, <<"઩">>),
      Run(2737, <<"઱">>),
      Run(2740, <<"઴">>),
      Run(2746, <<"઺", "઻", "઼">>),
      Run(2753, <<"ુ", "ૂ", "ૃ", "ૄ", "ૅ", "૆", "ે", "ૈ">>),
      Run(2762, <<"૊">>),
      Run(2765, <<"્", "૎", "૏">>),
      Run(2769, <<"૑", "૒", "૓", "૔", "૕", "૖", "૗", "૘", "૙", "૚", "૛", "૜", "૝", "૞", "૟">>),
      Run(2786, <<"ૢ", "ૣ", "૤", "૥">>),
      Run(2802, <<"૲", "૳", "૴", "૵", "૶", "૷", "૸">>),
      Run(2810, <<"ૺ", "ૻ", "ૼ", "૽", "૾", "૿">>),
      Run(2944, <<"஀", "஁", "ஂ">>),
      Run(2948, <<"஄">>),
      Run(2955, <<"஋", "஌", "஍">>),
      Run(2961, <<"஑">>),
      Run(2966, <<"஖", "஗", "஘">>),
      Run(2971, <<"஛">>),
      Run(2973, <<"஝">>),
      Run(2976, <<"஠", "஡", "஢">>),
      Run(2981, <<"஥", "஦", "஧">>),
      Run(2987, <<"஫", "஬", "஭">>),
      Run(3002, <<"஺", "஻", "஼", "஽", "ா">>),
      Run(3008, <<"ீ">>),
      Run(3011, <<"௃", "௄", "௅">>),
      Run(3017, <<"௉">>),
      Run(3021, <<"்", "௎", "௏">>),
      Run(3025, <<"௑", "௒", "௓", "௔", "௕", "௖", "ௗ", "௘", "௙", "௚", "௛", "௜", "௝", "௞", "௟", "௠",
                  "௡", "௢", "௣", "௤", "௥">>),
      Run(3067, <<"௻", "௼", "௽", "௾", "௿">>),
      Run(3201, <<"ಁ">>),
      Run(3213, <<"಍">>),
      Run(3217, <<"಑">>),
      Run(3241, <<"಩">>),
      Run(3252, <<"಴">>),
      Run(3258, <<"಺", "಻", "಼">>),
      Run(3263, <<"ಿ", "ೀ">>),
      Run(3266, <<"ೂ">>),
      Run(3269, <<"೅", "ೆ", "ೇ", "ೈ", "೉", "ೊ", "ೋ", "ೌ", "್", "೎", "೏", "೐", "೑", "೒", "೓", "೔",
                  "ೕ", "ೖ", "೗", "೘", "೙", "೚", "೛">>),
      Run(3295, <<"೟">>),
      Run(3298, <<"ೢ", "ೣ", "೤", "೥">>),
      Run(3312, <<"೰">>),
      Run(3316, <<"೴", "೵", "೶", "೷", "೸", "೹", "೺", "೻", "೼", "೽", "೾", "೿">>),
      Run(3456, <<"඀", "ඁ">>),
      Run(3460, <<"඄">>),
      Run(3479, <<"඗", "඘", "඙">>),
      Run(3506, <<"඲">>),
      Run(3516, <<"඼">>),
      Run(3518, <<"඾", "඿">>),
      Run(3527, <<"෇", "෈", "෉", "්", "෋", "෌", "෍", "෎", "ා">>),
      Run(3538, <<"ි", "ී", "ු", "෕", "ූ", "෗">>),
      Run(3551, <<"ෟ", "෠", "෡", "෢", "෣", "෤", "෥">>),
      Run(3568, <<"෰", "෱">>),
      Run(3573, <<"෵", "෶", "෷", "෸", "෹", "෺", "෻", "෼", "෽", "෾", "෿">>),
      Run(3712, <<"຀">>),
      Run(3715, <<"຃">>),
      Run(3717, <<"຅">>),
      Run(3723, <<"຋">>),
      Run(3748, <<"຤">>),
      Run(3750, <<"຦">>),
      Run(3761, <<"ັ">>),
      Run(3764, <<"ິ", "ີ", "ຶ", "ື", "ຸ", "ູ", "຺", "ົ", "ຼ">>),
      Run(3774, <<"຾", "຿">>),
      Run(3781, <<"໅">>),
      Run(3783, <<"໇", "່", "້", "໊", "໋", "໌", "ໍ", "໎", "໏">>),
      Run(3802, <<"໚", "໛">>),
      Run(3808, <<"໠", "໡", "໢", "໣", "໤", "໥", "໦", "໧", "໨", "໩", "໪", "໫", "໬", "໭", "໮", "໯",
                  "໰", "໱", "໲", "໳", "໴", "໵", "໶", "໷", "໸", "໹", "໺", "໻", "໼", "໽", "໾", "໿">>),
      Run(3968, <<"ྀ", "ཱྀ", "ྂ", "ྃ", "྄">>),
      Run(3974, <<"྆", "྇">>),
      Run(3981, <<"ྍ", "ྎ", "ྏ", "ྐ", "ྑ", "ྒ", "ྒྷ", "ྔ", "ྕ", "ྖ", "ྗ", "྘", "ྙ", "ྚ", "ྛ", "ྜ",
                  "ྜྷ", "ྞ", "ྟ", "ྠ", "ྡ", "ྡྷ", "ྣ", "ྤ", "ྥ", "ྦ", "ྦྷ", "ྨ", "ྩ", "ྪ", "ྫ", "ྫྷ",
                  "ྭ", "ྮ", "ྯ", "ྰ", "ྱ", "ྲ", "ླ", "ྴ", "ྵ", "ྶ", "ྷ", "ྸ", "ྐྵ", "ྺ", "ྻ", "ྼ",
                  "྽">>),
      Run(4038, <<"࿆">>),
      Run(4045, <<"࿍">>),
      Run(4059, <<"࿛", "࿜", "࿝", "࿞", "࿟", "࿠", "࿡", "࿢", "࿣", "࿤", "࿥", "࿦", "࿧", "࿨", "࿩", "࿪",
                  "࿫", "࿬", "࿭", "࿮", "࿯", "࿰", "࿱", "࿲", "࿳", "࿴", "࿵", "࿶", "࿷", "࿸", "࿹", "࿺",
                  "࿻", "࿼", "࿽", "࿾", "࿿">>),
      Run(4226, <<"ႂ">>),
      Run(4229, <<"ႅ", "ႆ">>),
      Run(4237, <<"ႍ">>),
      Run(4253, <<"ႝ">>),
      Run(4294, <<"჆">>),
      Run(4296, <<"჈", "჉", "჊", "჋", "჌">>),
      Run(4302, <<"჎", "჏">>),
      Run(4745, <<"኉">>),
      Run(4750, <<"኎", "኏">>),
      Run(4785, <<"኱">>),
      Run(4790, <<"኶", "኷">>),
      Run(4799, <<"኿">>),
      Run(4801, <<"዁">>),
      Run(4806, <<"዆", "዇">>),
      Run(4823, <<"዗">>),
      Run(5018, <<"᎚", "᎛", "᎜", "᎝", "᎞", "᎟">>),
      Run(5110, <<"᏶", "᏷">>),
      Run(5118, <<"᏾", "᏿">>),
      Run(5760, <<" ">>),
      Run(5789, <<"᚝", "᚞", "᚟">>),
      Run(5881, <<"᛹", "᛺", "᛻", "᛼", "᛽", "᛾", "᛿">>),
      Run(6068, <<"឴", "឵">>),
      Run(6071, <<"ិ", "ី", "ឹ", "ឺ", "ុ", "ូ", "ួ">>),
      Run(6086, <<"ំ">>),
      Run(6089, <<"៉", "៊", "់", "៌", "៍", "៎", "៏", "័", "៑", "្", "៓">>),
      Run(6109, <<"៝", "៞", "៟">>),
      Run(6122, <<"៪", "៫", "៬", "៭", "៮", "៯">>),
      Run(6138, <<"៺", "៻", "៼", "៽", "៾", "៿">>),
      Run(6277, <<"ᢅ", "ᢆ">>),
      Run(6313, <<"ᢩ">>),
      Run(6315, <<"᢫", "᢬", "᢭", "᢮", "᢯">>),
      Run(6390, <<"᣶", "᣷", "᣸", "᣹", "᣺", "᣻", "᣼", "᣽", "᣾", "᣿">>),
      Run(6572, <<"᦬", "᦭", "᦮", "᦯">>),
      Run(6602, <<"᧊", "᧋", "᧌", "᧍", "᧎", "᧏">>),
      Run(6619, <<"᧛", "᧜", "᧝">>),
      Run(6794, <<"᪊", "᪋", "᪌", "᪍", "᪎", "᪏">>),
      Run(6810, <<"᪚", "᪛", "᪜", "᪝", "᪞", "᪟">>),
      Run(6830, <<"᪮", "᪯", "᪰", "᪱", "᪲", "᪳", "᪴", "᪵", "᪶", "᪷", "᪸", "᪹", "᪺", "᪻", "᪼", "᪽",
                  "᪾", "ᪿ", "ᫀ", "᫁", "᫂", "᫃", "᫄", "᫅", "᫆", "᫇", "᫈", "᫉", "᫊", "᫋", "ᫌ", "ᫍ",
                  "ᫎ", "᫏", "᫐", "᫑", "᫒", "᫓", "᫔", "᫕", "᫖", "᫗", "᫘", "᫙", "᫚", "᫛", "᫜", "᫝",
                  "᫞", "᫟", "᫠", "᫡", "᫢", "᫣", "᫤", "᫥", "᫦", "᫧", "᫨", "᫩", "᫪", "᫫", "᫬", "᫭",
                  "᫮", "᫯", "᫰", "᫱", "᫲", "᫳", "᫴", "᫵", "᫶", "᫷", "᫸", "᫹", "᫺", "᫻", "᫼", "᫽",
                  "᫾", "᫿">>),
      Run(7040, <<"ᮀ", "ᮁ">>),
      Run(7074, <<"ᮢ", "ᮣ", "ᮤ", "ᮥ">>),
      Run(7080, <<"ᮨ", "ᮩ", "᮪", "᮫", "ᮬ", "ᮭ">>),
      Run(7142, <<"᯦">>),
      Run(7144, <<"ᯨ", "ᯩ">>),
      Run(7149, <<"ᯭ">>),
      Run(7151, <<"ᯯ", "ᯰ", "ᯱ", "᯲", "᯳", "᯴", "᯵", "᯶", "᯷", "᯸", "᯹", "᯺", "᯻">>),
      Run(7307, <<"᲋", "᲌", "᲍", "᲎", "᲏">>),
      Run(7355, <<"᲻", "᲼">>),
      Run(7368, <<"᳈", "᳉", "᳊", "᳋", "᳌", "᳍", "᳎", "᳏", "᳐", "᳑", "᳒">>),
      Run(7380, <<"᳔", "᳕", "᳖", "᳗", "᳘", "᳙", "᳚", "᳛", "᳜", "᳝", "᳞", "᳟", "᳠">>),
      Run(7394, <<"᳢", "᳣", "᳤", "᳥", "᳦", "᳧", "᳨">>),
      Run(7405, <<"᳭">>),
      Run(7412, <<"᳴">>),
      Run(7416, <<"᳸", "᳹">>),
      Run(7419, <<"᳻", "᳼", "᳽", "᳾", "᳿">>),
      Run(7616, <<"᷀", "᷁", "᷂", "᷃", "᷄", "᷅", "᷆", "᷇", "᷈", "᷉", "᷊", "᷋", "᷌", "᷍", "᷎", "᷏",
                  "᷐", "᷑", "᷒", "ᷓ", "ᷔ", "ᷕ", "ᷖ", "ᷗ", "ᷘ", "ᷙ", "ᷚ", "ᷛ", "ᷜ", "ᷝ", "ᷞ", "ᷟ",
                  "ᷠ", "ᷡ", "ᷢ", "ᷣ", "ᷤ", "ᷥ", "ᷦ", "ᷧ", "ᷨ", "ᷩ", "ᷪ", "ᷫ", "ᷬ", "ᷭ", "ᷮ", "ᷯ",
                  "ᷰ", "ᷱ", "ᷲ", "ᷳ", "ᷴ", "᷵", "᷶", "᷷", "᷸", "᷹", "᷺", "᷻", "᷼", "᷽", "᷾", "᷿">>),
      Run(8117, <<"᾵">>),
      Run(8133, <<"῅">>),
      Run(8148, <<"῔", "῕">>),
      Run(8156, <<"῜">>),
      Run(8176, <<"῰", "῱">>),
      Run(8181, <<"῵">>),
      Run(8191, <<"῿">>),
      Run(8335, <<"₏">>),
      Run(8349, <<"₝", "₞", "₟">>),
      Run(8386, <<"⃂", "⃃", "⃄", "⃅", "⃆", "⃇", "⃈", "⃉", "⃊", "⃋", "⃌", "⃍", "⃎", "⃏", "⃐", "⃑",
                  "⃒", "⃓", "⃔", "⃕", "⃖", "⃗", "⃘", "⃙", "⃚", "⃛", "⃜", "⃝", "⃞", "⃟", "⃠", "⃡",
                  "⃢", "⃣", "⃤", "⃥", "⃦", "⃧", "⃨", "⃩", "⃪", "⃫", "⃬", "⃭", "⃮", "⃯", "⃰", "⃱",
                  "⃲", "⃳", "⃴", "⃵", "⃶", "⃷", "⃸", "⃹", "⃺", "⃻", "⃼", "⃽", "⃾", "⃿">>),
      Run(8588, <<"↌", "↍", "↎", "↏">>),
      Run(11503, <<"⳯", "⳰", "⳱">>),
      Run(11508, <<"⳴", "⳵", "⳶", "⳷", "⳸">>),
      Run(11671, <<"⶗", "⶘", "⶙", "⶚", "⶛", "⶜", "⶝", "⶞", "⶟">>),
      Run(11687, <<"⶧">>),
      Run(11695, <<"⶯">>),
      Run(11703, <<"⶷">>),
      Run(11711, <<"⶿">>),
      Run(11719, <<"⷇">>),
      Run(11727, <<"⷏">>),
      Run(11735, <<"⷗">>),
      Run(11743, <<"⷟", "ⷠ", "ⷡ", "ⷢ", "ⷣ", "ⷤ", "ⷥ", "ⷦ", "ⷧ", "ⷨ", "ⷩ", "ⷪ", "ⷫ", "ⷬ", "ⷭ", "ⷮ",
                   "ⷯ", "ⷰ", "ⷱ", "ⷲ", "ⷳ", "ⷴ", "ⷵ", "ⷶ", "ⷷ", "ⷸ", "ⷹ", "ⷺ", "ⷻ", "ⷼ", "ⷽ", "ⷾ",
                   "ⷿ">>),
      Run(11930, <<"⺚">>),
      Run(12020, <<"⻴", "⻵", "⻶", "⻷", "⻸", "⻹", "⻺", "⻻", "⻼", "⻽", "⻾", "⻿">>),
      Run(12246, <<"⿖", "⿗", "⿘", "⿙", "⿚", "⿛", "⿜", "⿝", "⿞", "⿟", "⿠", "⿡", "⿢", "⿣", "⿤", "⿥",
                   "⿦", "⿧", "⿨", "⿩", "⿪", "⿫", "⿬", "⿭", "⿮", "⿯">>),
      Run(12439, <<"゗", "゘", "゙", "゚">>),
      Run(12687, <<"㆏">>),
      Run(12774, <<"㇦", "㇧", "㇨", "㇩", "㇪", "㇫", "㇬", "㇭", "㇮">>),
      Run(42125, <<"꒍", "꒎", "꒏">>),
      Run(42183, <<"꓇", "꓈", "꓉", "꓊", "꓋", "꓌", "꓍", "꓎", "꓏">>),
      Run(42654, <<"ꚞ", "ꚟ">>),
      Run(42736, <<"꛰", "꛱">>),
      Run(42744, <<"꛸", "꛹", "꛺", "꛻", "꛼", "꛽", "꛾", "꛿">>),
      Run(42973, <<"꟝", "꟞", "꟟", "꟠", "꟡", "꟢", "꟣", "꟤", "꟥", "꟦", "꟧", "꟨", "꟩", "꟪", "꟫", "꟬",
                   "꟭", "꟮", "꟯", "꟰">>),
      Run(43204, <<"꣄", "ꣅ", "꣆", "꣇", "꣈", "꣉", "꣊", "꣋", "꣌", "꣍">>),
      Run(43226, <<"꣚", "꣛", "꣜", "꣝", "꣞", "꣟", "꣠", "꣡", "꣢", "꣣", "꣤", "꣥", "꣦", "꣧", "꣨", "꣩",
                   "꣪", "꣫", "꣬", "꣭", "꣮", "꣯", "꣰", "꣱">>),
      Run(43263, <<"ꣿ">>),
      Run(43392, <<"ꦀ", "ꦁ", "ꦂ">>),
      Run(43443, <<"꦳">>),
      Run(43446, <<"ꦶ", "ꦷ", "ꦸ", "ꦹ">>),
      Run(43452, <<"ꦼ", "ꦽ">>),
      Run(43456, <<"꧀">>),
      Run(43470, <<"꧎">>),
      Run(43482, <<"꧚", "꧛", "꧜", "꧝">>),
      Run(43493, <<"ꧥ">>),
      Run(43519, <<"꧿">>),
      Run(43696, <<"ꪰ">>),
      Run(43698, <<"ꪲ", "ꪳ", "ꪴ">>),
      Run(43703, <<"ꪷ", "ꪸ">>),
      Run(43710, <<"ꪾ", "꪿">>),
      Run(43713, <<"꫁">>),
      Run(43715, <<"꫃", "꫄", "꫅", "꫆", "꫇", "꫈", "꫉", "꫊", "꫋", "꫌", "꫍", "꫎", "꫏", "꫐", "꫑", "꫒",
                   "꫓", "꫔", "꫕", "꫖", "꫗", "꫘", "꫙", "꫚">>),
      Run(43756, <<"ꫬ", "ꫭ">>),
      Run(43766, <<"꫶", "꫷", "꫸", "꫹", "꫺", "꫻", "꫼", "꫽", "꫾", "꫿">>),
      Run(44005, <<"ꯥ">>),
      Run(44008, <<"ꯨ">>),
      Run(44013, <<"꯭", "꯮", "꯯">>),
      Run(44026, <<"꯺", "꯻", "꯼", "꯽", "꯾", "꯿">>),
      Run(55204, <<"힤", "힥", "힦", "힧", "힨", "힩", "힪", "힫", "힬", "힭", "힮", "힯">>),
      Run(55239, <<"퟇", "퟈", "퟉", "퟊">>),
      Run(55292, <<"퟼", "퟽", "퟾", "퟿">>),
      Run(57472, <<"", "", "", "", "", "", "", "", "", "", "", "", "", "", "", "",
                   "", "", "", "", "", "", "", "", "", "", "", "", "", "", "", "",
                   "", "", "", "", "", "", "", "", "", "", "", "", "", "", "", "",
                   "", "", "", "", "", "", "", "", "", "", "", "", "", "", "", "",
                   "", "", "", "", "", "", "", "", "", "", "", "", "", "", "", "",
                   "", "", "", "", "", "", "", "", "", "", "", "", "", "", "", "",
                   "", "", "", "", "", "", "", "", "", "", "", "", "", "", "", "",
                   "", "", "", "", "", "", "", "", "", "", "", "", "", "", "", "">>),
      Run(57728, <<"", "", "", "", "", "", "", "", "", "", "", "", "", "", "", "",
                   "", "", "", "", "", "", "", "", "", "", "", "", "", "", "", "",
                   "", "", "", "", "", "", "", "", "", "", "", "", "", "", "", "",
                   "", "", "", "", "", "", "", "", "", "", "", "", "", "", "", "",
                   "", "", "", "", "", "", "", "", "", "", "", "", "", "", "", "",
                   "", "", "", "", "", "", "", "", "", "", "", "", "", "", "", "",
                   "", "", "", "", "", "", "", "", "", "", "", "", "", "", "", "",
                   "", "", "", "", "", "", "", "", "", "", "", "", "", "", "", "">>),
      Run(57984, <<"", "", "", "", "", "", "", "", "", "", "", "", "", "", "", "",
                   "", "", "", "", "", "", "", "", "", "", "", "", "", "", "", "",
                   "", "", "", "", "", "", "", "", "", "", "", "", "", "", "", "",
                   "", "", "", "", "", "", "", "", "", "", "", "", "", "", "", "",
                   "", "", "", "", "", "", "", "", "", "", "", "", "", "", "", "",
                   "", "", "", "", "", "", "", "", "", "", "", "", "", "", "", "",
                   "", "", "", "", "", "", "", "", "", "", "", "", "", "", "", "",
                   "", "", "", "", "", "", "", "", "", "", "", "", "", "", "", "">>),
      Run(58240, <<"", "", "", "", "", "", "", "", "", "", "", "", "", "", "", "",
                   "", "", "", "", "", "", "", "", "", "", "", "", "", "", "", "",
                   "", "", "", "", "", "", "", "", "", "", "", "", "", "", "", "",
                   "", "", "", "", "", "", "", "", "", "", "", "", "", "", "", "",
                   "", "", "", "", "", "", "", "", "", "", "", "", "", "", "", "",
                   "", "", "", "", "", "", "", "", "", "", "", "", "", "", "", "",
                   "", "", "", "", "", "", "", "", "", "", "", "", "", "", "", "",
                   "", "", "", "", "", "", "", "", "", "", "", "", "", "", "", "">>),
      Run(58496, <<"", "", "", "", "", "", "", "", "", "", "", "", "", "", "", "",
                   "", "", "", "", "", "", "", "", "", "", "", "", "", "", "", "",
                   "", "", "", "", "", "", "", "", "", "", "", "", "", "", "", "",
                   "", "", "", "", "", "", "", "", "", "", "", "", "", "", "", "",
                   "", "", "", "", "", "", "", "", "", "", "", "", "", "", "", "",
                   "", "", "", "", "", "", "", "", "", "", "", "", "", "", "", "",
                   "", "", "", "", "", "", "", "", "", "", "", "", "", "", "", "",
                   "", "", "", "", "", "", "", "", "", "", "", "", "", "", "", "">>),
      Run(58752, <<"", "", "", "", "", "", "", "", "", "", "", "", "", "", "", "",
                   "", "", "", "", "", "", "", "", "", "", "", "", "", "", "", "",
                   "", "", "", "", "", "", "", "", "", "", "", "", "", "", "", "",
                   "", "", "", "", "", "", "", "", "", "", "", "", "", "", "", "",
                   "", "", "", "", "", "", "", "", "", "", "", "", "", "", "", "",
                   "", "", "", "", "", "", "", "", "", "", "", "", "", "", "", "",
                   "", "", "", "", "", "", "", "", "", "", "", "", "", "", "", "",
                   "", "", "", "", "", "", "", "", "", "", "", "", "", "", "", "">>),
      Run(59008, <<"", "", "", "", "", "", "", "", "", "", "", "", "", "", "", "",
                   "", "", "", "", "", "", "", "", "", "", "", "", "", "", "", "",
                   "", "", "", "", "", "", "", "", "", "", "", "", "", "", "", "",
                   "", "", "", "", "", "", "", "", "", "", "", "", "", "", "", "",
                   "", "", "", "", "", "", "", "", "", "", "", "", "", "", "", "",
                   "", "", "", "", "", "", "", "", "", "", "", "", "", "", "", "",
                   "", "", "", "", "", "", "", "", "", "", "", "", "", "", "", "",
                   "", "", "", "", "", "", "", "", "", "", "", "", "", "", "", "">>),
      Run(59264, <<"", "", "", "", "", "", "", "", "", "", "", "", "", "", "", "",
                   "", "", "", "", "", "", "", "", "", "", "", "", "", "", "", "",
                   "", "", "", "", "", "", "", "", "", "", "", "", "", "", "", "",
                   "", "", "", "", "", "", "", "", "", "", "", "", "", "", "", "",
                   "", "", "", "", "", "", "", "", "", "", "", "", "", "", "", "",
                   "", "", "", "", "", "", "", "", "", "", "", "", "", "", "", "",
                   "", "", "", "", "", "", "", "", "", "", "", "", "", "", "", "",
                   "", "", "", "", "", "", "", "", "", "", "", "", "", "", "", "">>),
      Run(59520, <<"", "", "", "", "", "", "", "", "", "", "", "", "", "", "", "",
                   "", "", "", "", "", "", "", "", "", "", "", "", "", "", "", "",
                   "", "", "", "", "", "", "", "", "", "", "", "", "", "", "", "",
                   "", "", "", "", "", "", "", "", "", "", "", "", "", "", "", "",
                   "", "", "", "", "", "", "", "", "", "", "", "", "", "", "", "",
                   "", "", "", "", "", "", "", "", "", "", "", "", "", "", "", "",
                   "", "", "", "", "", "", "", "", "", "", "", "", "", "", "", "",
                   "", "", "", "", "", "", "", "", "", "", "", "", "", "", "", "">>),
      Run(59776, <<"", "", "", "", "", "", "", "", "", "", "", "", "", "", "", "",
                   "", "", "", "", "", "", "", "", "", "", "", "", "", "", "", "",
                   "", "", "", "", "", "", "", "", "", "", "", "", "", "", "", "",
                   "", "", "", "", "", "", "", "", "", "", "", "", "", "", "", "",
                   "", "", "", "", "", "", "", "", "", "", "", "", "", "", "", "",
                   "", "", "", "", "", "", "", "", "", "", "", "", "", "", "", "",
                   "", "", "", "", "", "", "", "", "", "", "", "", "", "", "", "",
                   "", "", "", "", "", "", "", "", "", "", "", "", "", "", "", "">>),
      Run(60032, <<"", "", "", "", "", "", "", "", "", "", "", "", "", "", "", "",
                   "", "", "", "", "", "", "", "", "", "", "", "", "", "", "", "",
                   "", "", "", "", "", "", "", "", "", "", "", "", "", "", "", "",
                   "", "", "", "", "", "", "", "", "", "", "", "", "", "", "", "",
                   "", "", "", "", "", "", "", "", "", "", "", "", "", "", "", "",
                   "", "", "", "", "", "", "", "", "", "", "", "", "", "", "", "",
                   "", "", "", "", "", "", "", "", "", "", "", "", "", "", "", "",
                   "", "", "", "", "", "", "", "", "", "", "", "", "", "", "", "">>),
      Run(60288, <<"", "", "", "", "", "", "", "", "", "", "", "", "", "", "", "",
                   "", "", "", "", "", "", "", "", "", "", "", "", "", "", "", "",
                   "", "", "", "", "", "", "", "", "", "", "", "", "", "", "", "",
                   "", "", "", "", "", "", "", "", "", "", "", "", "", "", "", "",
                   "", "", "", "", "", "", "", "", "", "", "", "", "", "", "", "",
                   "", "", "", "", "", "", "", "", "", "", "", "", "", "", "", "",
                   "", "", "", "", "", "", "", "", "", "", "", "", "", "", "", "",
                   "", "", "", "", "", "", "", "", "", "", "", "", "", "", "", "">>),
      Run(60544, <<"", "", "", "", "", "", "", "", "", "", "", "", "", "", "", "",
                   "", "", "", "", "", "", "", "", "", "", "", "", "", "", "", "",
                   "", "", "", "", "", "", "", "", "", "", "", "", "", "", "", "",
                   "", "", "", "", "", "", "", "", "", "", "", "", "", "", "", "",
                   "", "", "", "", "", "", "", "", "", "", "", "", "", "", "", "",
                   "", "", "", "", "", "", "", "", "", "", "", "", "", "", "", "",
                   "", "", "", "", "", "", "", "", "", "", "", "", "", "", "", "",
                   "", "", "", "", "", "", "", "", "", "", "", "", "", "", "", "">>),
      Run(60800, <<"", "", "", "", "", "", "", "", "", "", "", "", "", "", "", "",
                   "", "", "", "", "", "", "", "", "", "", "", "", "", "", "", "",
                   "", "", "", "", "", "", "", "", "", "", "", "", "", "", "", "",
                   "", "", "", "", "", "", "", "", "", "", "", "", "", "", "", "",
                   "", "", "", "", "", "", "", "", "", "", "", "", "", "", "", "",
                   "", "", "", "", "", "", "", "", "", "", "", "", "", "", "", "",
                   "", "", "", "", "", "", "", "", "", "", "", "", "", "", "", "",
                   "", "", "", "", "", "", "", "", "", "", "", "", "", "", "", "">>),
      Run(61056, <<"", "", "", "", "", "", "", "", "", "", "", "", "", "", "", "",
                   "", "", "", "", "", "", "", "", "", "", "", "", "", "", "", "",
                   "", "", "", "", "", "", "", "", "", "", "", "", "", "", "", "",
                   "", "", "", "", "", "", "", "", "", "", "", "", "", "", "", "",
                   "", "", "", "", "", "", "", "", "", "", "", "", "", "", "", "",
                   "", "", "", "", "", "", "", "", "", "", "", "", "", "", "", "",
                   "", "", "", "", "", "", "", "", "", "", "", "", "", "", "", "",
                   "", "", "", "", "", "", "", "", "", "", "", "", "", "", "", "">>),
      Run(61312, <<"", "", "", "", "", "", "", "", "", "", "", "", "", "", "", "",
                   "", "", "", "", "", "", "", "", "", "", "", "", "", "", "", "",
                   "", "", "", "", "", "", "", "", "", "", "", "", "", "", "", "",
                   "", "", "", "", "", "", "", "", "", "", "", "", "", "", "", "",
                   "", "", "", "", "", "", "", "", "", "", "", "", "", "", "", "",
                   "", "", "", "", "", "", "", "", "", "", "", "", "", "", "", "",
                   "", "", "", "", "", "", "", "", "", "", "", "", "", "", "", "",
                   "", "", "", "", "", "", "", "", "", "", "", "", "", "", "", "">>),
      Run(61568, <<"", "", "", "", "", "", "", "", "", "", "", "", "", "", "", "",
                   "", "", "", "", "", "", "", "", "", "", "", "", "", "", "", "",
                   "", "", "", "", "", "", "", "", "", "", "", "", "", "", "", "",
                   "", "", "", "", "", "", "", "", "", "", "", "", "", "", "", "",
                   "", "", "", "", "", "", "", "", "", "", "", "", "", "", "", "",
                   "", "", "", "", "", "", "", "", "", "", "", "", "", "", "", "",
                   "", "", "", "", "", "", "", "", "", "", "", "", "", "", "", "",
                   "", "", "", "", "", "", "", "", "", "", "", "", "", "", "", "">>),
      Run(61824, <<"", "", "", "", "", "", "", "", "", "", "", "", "", "", "", "",
                   "", "", "", "", "", "", "", "", "", "", "", "", "", "", "", "",
                   "", "", "", "", "", "", "", "", "", "", "", "", "", "", "", "",
                   "", "", "", "", "", "", "", "", "", "", "", "", "", "", "", "",
                   "", "", "", "", "", "", "", "", "", "", "", "", "", "", "", "",
                   "", "", "", "", "", "", "", "", "", "", "", "", "", "", "", "",
                   "", "", "", "", "", "", "", "", "", "", "", "", "", "", "", "",
                   "", "", "", "", "", "", "", "", "", "", "", "", "", "", "", "">>),
      Run(62080, <<"", "", "", "", "", "", "", "", "", "", "", "", "", "", "", "",
                   "", "", "", "", "", "", "", "", "", "", "", "", "", "", "", "",
                   "", "", "", "", "", "", "", "", "", "", "", "", "", "", "", "",
                   "", "", "", "", "", "", "", "", "", "", "", "", "", "", "", "",
                   "", "", "", "", "", "", "", "", "", "", "", "", "", "", "", "",
                   "", "", "", "", "", "", "", "", "", "", "", "", "", "", "", "",
                   "", "", "", "", "", "", "", "", "", "", "", "", "", "", "", "",
                   "", "", "", "", "", "", "", "", "", "", "", "", "", "", "", "">>),
      Run(62336, <<"", "", "", "", "", "", "", "", "", "", "", "", "", "", "", "",
                   "", "", "", "", "", "", "", "", "", "", "", "", "", "", "", "",
                   "", "", "", "", "", "", "", "", "", "", "", "", "", "", "", "",
                   "", "", "", "", "", "", "", "", "", "", "", "", "", "", "", "",
                   "", "", "", "", "", "", "", "", "", "", "", "", "", "", "", "",
                   "", "", "", "", "", "", "", "", "", "", "", "", "", "", "", "",
                   "", "", "", "", "", "", "", "", "", "", "", "", "", "", "", "",
                   "", "", "", "", "", "", "", "", "", "", "", "", "", "", "", "">>),
      Run(62592, <<"", "", "", "", "", "", "", "", "", "", "", "", "", "", "", "",
                   "", "", "", "", "", "", "", "", "", "", "", "", "", "", "", "",
                   "", "", "", "", "", "", "", "", "", "", "", "", "", "", "", "",
                   "", "", "", "", "", "", "", "", "", "", "", "", "", "", "", "",
                   "", "", "", "", "", "", "", "", "", "", "", "", "", "", "", "",
                   "", "", "", "", "", "", "", "", "", "", "", "", "", "", "", "",
                   "", "", "", "", "", "", "", "", "", "", "", "", "", "", "", "",
                   "", "", "", "", "", "", "", "", "", "", "", "", "", "", "", "">>),
      Run(62848, <<"", "", "", "", "", "", "", "", "", "", "", "", "", "", "", "",
                   "", "", "", "", "", "", "", "", "", "", "", "", "", "", "", "",
                   "", "", "", "", "", "", "", "", "", "", "", "", "", "", "", "",
                   "", "", "", "", "", "", "", "", "", "", "", "", "", "", "", "",
                   "", "", "", "", "", "", "", "", "", "", "", "", "", "", "", "",
                   "", "", "", "", "", "", "", "", "", "", "", "", "", "", "", "",
                   "", "", "", "", "", "", "", "", "", "", "", "", "", "", "", "",
                   "", "", "", "", "", "", "", "", "", "", "", "", "", "", "", "">>),
      Run(63104, <<"", "", "", "", "", "", "", "", "", "", "", "", "", "", "", "",
                   "", "", "", "", "", "", "", "", "", "", "", "", "", "", "", "",
                   "", "", "", "", "", "", "", "", "", "", "", "", "", "", "", "",
                   "", "", "", "", "", "", "", "", "", "", "", "", "", "", "", "",
                   "", "", "", "", "", "", "", "", "", "", "", "", "", "", "", "",
                   "", "", "", "", "", "", "", "", "", "", "", "", "", "", "", "",
                   "", "", "", "", "", "", "", "", "", "", "", "", "", "", "", "",
                   "", "", "", "", "", "", "", "", "", "", "", "", "", "", "", "">>),
      Run(63360, <<"", "", "", "", "", "", "", "", "", "", "", "", "", "", "", "",
                   "", "", "", "", "", "", "", "", "", "", "", "", "", "", "", "",
                   "", "", "", "", "", "", "", "", "", "", "", "", "", "", "", "",
                   "", "", "", "", "", "", "", "", "", "", "", "", "", "", "", "",
                   "", "", "", "", "", "", "", "", "", "", "", "", "", "", "", "",
                   "", "", "", "", "", "", "", "", "", "", "", "", "", "", "", "",
                   "", "", "", "", "", "", "", "", "", "", "", "", "", "", "", "",
                   "", "", "", "", "", "", "", "", "", "", "", "", "", "", "", "">>),
      Run(63616, <<"", "", "", "", "", "", "", "", "", "", "", "", "", "", "", "",
                   "", "", "", "", "", "", "", "", "", "", "", "", "", "", "", "",
                   "", "", "", "", "", "", "", "", "", "", "", "", "", "", "", "",
                   "", "", "", "", "", "", "", "", "", "", "", "", "", "", "", "",
                   "", "", "", "", "", "", "", "", "", "", "", "", "", "", "", "",
                   "", "", "", "", "", "", "", "", "", "", "", "", "", "", "", "",
                   "", "", "", "", "", "", "", "", "", "", "", "", "", "", "", "",
                   "", "", "", "", "", "", "", "", "", "", "", "", "", "", "", "">>),
      Run(64218, <<"﫚", "﫛", "﫜", "﫝", "﫞", "﫟", "﫠", "﫡", "﫢", "﫣", "﫤", "﫥", "﫦", "﫧", "﫨", "﫩",
                   "﫪", "﫫", "﫬", "﫭", "﫮", "﫯", "﫰", "﫱", "﫲", "﫳", "﫴", "﫵", "﫶", "﫷", "﫸", "﫹",
                   "﫺", "﫻", "﫼", "﫽", "﫾", "﫿">>),
      Run(64976, <<"﷐", "﷑", "﷒", "﷓", "﷔", "﷕", "﷖", "﷗", "﷘", "﷙", "﷚", "﷛", "﷜", "﷝", "﷞", "﷟",
                   "﷠", "﷡", "﷢", "﷣", "﷤", "﷥", "﷦", "﷧", "﷨", "﷩", "﷪", "﷫", "﷬", "﷭", "﷮", "﷯">>),
      Run(65277, <<"﻽", "﻾", "﻿">>),
      Run(65438, <<"ﾞ", "ﾟ">>),
      Run(65471, <<"﾿", "￀", "￁">>),
      Run(65480, <<"￈", "￉">>),
      Run(65488, <<"￐", "￑">>),
      Run(65496, <<"￘", "￙">>),
      Run(65501, <<"￝", "￞", "￟">>),
      Run(65511, <<"￧">>),
      Run(65519, <<"￯", "￰", "￱", "￲", "￳", "￴", "￵", "￶", "￷", "￸", "￹", "￺", "￻">>),
      Run(65534, <<"￾", "￿">>)
    >>

\* The set of these characters.
UnicodeEscapedChars ==
    UNION { {r.chars[j] : j \in 1 .. Len(r.chars)} :
              r \in {UnicodeEscaped[k] : k \in 1 .. Len(UnicodeEscaped)} }

\* The code point of one of them.
CodePoint(c) ==
    LET k == CHOOSE i \in 1 .. Len(UnicodeEscaped) :
                 \E j \in 1 .. Len(UnicodeEscaped[i].chars) : UnicodeEscaped[i].chars[j] = c
        r == UnicodeEscaped[k]
    IN  r.first + (CHOOSE j \in 1 .. Len(r.chars) : r.chars[j] = c) - 1

HexDigits == <<"0", "1", "2", "3", "4", "5", "6", "7", "8", "9", "a", "b", "c", "d", "e", "f">>

\* {:x} of a code point
RECURSIVE Hex(_)
Hex(n) ==
    IF n < 16 THEN <<HexDigits[n + 1]>>
    ELSE Hex(n \div 16) \o <<HexDigits[(n % 16) + 1]>>

\* \u{hex} of a code point
UnicodeEscape(n) == <<"\\", "u", "{">> \o Hex(n) \o <<"}">>

\* char::escape_debug as the Debug form of a str applies it: the double
\* quote, the backslash and the controls \t, \r, \n get a backslash, the
\* characters that are not printable or extend a grapheme become \u{hex},
\* every other character, the apostrophe among them, is kept.
EscapeDebug(c) ==
    CASE c = "\"" -> <<"\\", "\"">>
      [] c = "\\" -> <<"\\", "\\">>
      [] c = "\t" -> <<"\\", "t">>
      [] c = "\r" -> <<"\\", "r">>
      [] c = "\n" -> <<"\\", "n">>
      [] OTHER -> IF c \in UnicodeEscapedChars THEN UnicodeEscape(CodePoint(c)) ELSE <<c>>

\* The Debug form of a path, between its quotes.
RECURSIVE DebugEscape(_)
DebugEscape(path) ==
    IF path = <<>> THEN <<>>
    ELSE EscapeDebug(Head(path)) \o DebugEscape(Tail(path))

\* println!("Config: {:?}", config)
ConfigLine(c) ==
    <<"C", "o", "n", "f", "i", "g", ":", " ", "C", "o", "n", "f", "i", "g", " ", "{", " ",
      "d", "a", "t", "a", "b", "a", "s", "e", "_", "p", "a", "t", "h", ":", " ", "\"">>
    \o DebugEscape(c.database_path)
    \o <<"\"", ",", " ", "d", "a", "t", "a", "b", "a", "s", "e", "_", "t", "y", "p", "e",
         ":", " ">>
    \o (IF c.database_type = "Sqlite" THEN <<"S", "q", "l", "i", "t", "e">> ELSE <<>>)
    \o <<",", " ", "s", "a", "m", "p", "l", "e", "_", "i", "n", "t", "e", "r", "v", "a", "l",
         ":", " ">>
    \o FormatUnsigned(c.sample_interval)
    \o <<" ", "}">>

--------------------------------------------------------------------------
(* main: the change-detection loop *)
(* A value the code binds with `let` is bound here with \E over a         *)
(* one-element set, which has TLC compute it once.                        *)

\* The lines of a text that a newline is written after: the text split at
\* its newlines.
Lines(text) ==
    LET nl == {i \in 1 .. Len(text) : text[i] = "\n"}
        n == Cardinality(nl)
        cut(k) == IF k = 0 THEN 0
                  ELSE IF k = n + 1 THEN Len(text) + 1
                  ELSE CHOOSE i \in nl : Cardinality({j \in nl : j < i}) = k - 1
    IN  [k \in 1 .. (n + 1) |-> SubSeq(text, cut(k - 1) + 1, cut(k) - 1)]

\* Mutant of Render: the idle suffix is written behind the screensaver too.
RenderIdleBehindScreensaver(sample) ==
    (IF sample.screensaver_active
     THEN <<"s", "c", "r", "e", "e", "n", "s", "a", "v", "e", "r">>
     ELSE <<"'">> \o sample.window_title \o <<"'", " ", "(", "[">>
          \o FormatUnsigned(sample.pid) \o <<"]", " ">> \o sample.process_name \o <<")">>)
    \o (IF sample.idle THEN <<" ", "(", "i", "d", "l", "e", ")">> ELSE <<>>)

\* What the Ok arm writes for a sample: println!("screensaver"), or
\* print!("'{}' ([{}] {})", ..) followed by println!(" (idle)") or println!("").
Render(sample) ==
    IF sample.screensaver_active
    THEN <<"s", "c", "r", "e", "e", "n", "s", "a", "v", "e", "r">>
    ELSE <<"'">> \o sample.window_title \o <<"'", " ", "(", "[">>
         \o FormatUnsigned(sample.pid) \o <<"]", " ">> \o sample.process_name \o <<")">>
         \o (IF sample.idle THEN <<" ", "(", "i", "d", "l", "e", ")">> ELSE <<>>)

\* Mutant of Changed: the samples are compared by the line they would print.
ChangedByLine(last, sample) ==
    last = None \/ Render(last[1]) # Render(sample)

\* if last_sample != Some(sample.clone())
Changed(last, sample) == last # Some(sample)

\* A line of standard error.
ErrLine(what, kind, detail) == [what |-> what, kind |-> kind, detail |-> detail]

\* eprintln!("Error fetching data: {:?}", err)
SampleDiag(e) == ErrLine("Error fetching data", e.kind, e.detail)

\* get_sample binds one more local and goes on to its next probe.
Continue(next, l) ==
    /\ pc' = next
    /\ loc' = l
    /\ UNCHANGED <<result, last_sample, stdout, stderr>>

\* Mutant of Fail: the Err arm does not reset last_sample.
FailKeepsSlot(e) ==
    /\ result' = Some(Err(e))
    /\ stderr' = Append(stderr, SampleDiag(e))
    /\ UNCHANGED <<last_sample, stdout>>
    /\ loc' = NoLocals
    /\ pc' = "sleep"

\* Mutant of Fail: the diagnostic is written with println! instead of eprintln!.
FailToStdout(e) ==
    /\ result' = Some(Err(e))
    /\ stdout' = Append(stdout, <<"E", "r", "r", "o", "r">>)
    /\ last_sample' = None
    /\ stderr' = stderr
    /\ loc' = NoLocals
    /\ pc' = "sleep"

\* Mutant of Fail: the error of get_sample is unwrapped and main panics.
FailPanics(e) ==
    /\ result' = Some(Err(e))
    /\ stderr' = Append(stderr, [what |-> "panic", kind |-> e.kind, detail |-> e.detail])
    /\ UNCHANGED <<last_sample, stdout>>
    /\ loc' = NoLocals
    /\ pc' = "panicked"

\* get_sample returns Err(e): the Err arm of main, up to the sleep.
Fail(e) ==
    /\ result' = Some(Err(e))
    /\ stderr' = Append(stderr, SampleDiag(e))
    /\ last_sample' = None
    /\ stdout' = stdout
    /\ loc' = NoLocals
    /\ pc' = "sleep"

\* get_sample returns Ok(sample): the Ok arm of main, up to the sleep.  The
\* text is written as it is and println! ends it with a newline: a newline
\* inside the title or the process name ends a line of standard output.
Succeed(sample) ==
    /\ result' = Some(Ok(sample))
    /\ IF Changed(last_sample, sample)
       THEN /\ stdout' = stdout \o Lines(Render(sample))
            /\ last_sample' = Some(sample)
       ELSE UNCHANGED <<stdout, last_sample>>
    /\ stderr' = stderr
    /\ loc' = NoLocals
    /\ pc' = "sleep"

\* Mutant of LoadConfig: on a load error main goes on with the default
\* configuration.
LoadConfigOrDefault(envs) ==
    /\ pc = "start"
    /\ \E env \in envs :
         /\ host' = Some(env)
         /\ LET r == load_config(env)
            IN  IF r.outcome = "Ok" \/ (r.outcome = "Err" /\ env.home_dir # None)
                THEN /\ config' = IF r.outcome = "Ok" THEN r.config
                                  ELSE Some(ConfigDefault(env.home_dir[1]))
                     /\ stdout' = Append(stdout, ConfigLine(config'[1]))
                     /\ stderr' = IF r.outcome = "Ok" /\ ~r.warned THEN stderr
                                  ELSE Append(stderr, ErrLine("Could not load config file",
                                                              "none", "none"))
                     /\ pc' = "get_title"
                ELSE /\ stderr' = Append(stderr, ErrLine("panic", r.outcome, r.err))
                     /\ pc' = "panicked"
                     /\ UNCHANGED <<config, stdout>>
    /\ UNCHANGED <<desktop, loc, invoked, result, last_sample, sleeps, slept>>

\* main up to the loop: load_config, the panic on its error, the Config line.
LoadConfig(envs) ==
    /\ pc = "start"
    /\ \E env \in envs :
         /\ host' = Some(env)
         /\ LET r == load_config(env)
            IN  IF r.outcome = "Ok"
                THEN /\ config' = r.config
                     /\ stdout' = Append(stdout, ConfigLine(r.config[1]))
                     /\ stderr' = IF r.warned
                                  THEN Append(stderr, ErrLine("Could not load config file",
                                                              "none", "none"))
                                  ELSE stderr
                     /\ pc' = "get_title"
                ELSE /\ stderr' = Append(stderr, ErrLine("panic", r.outcome, r.err))
                     /\ pc' = "panicked"
                     /\ UNCHANGED <<config, stdout>>
    /\ UNCHANGED <<desktop, loc, invoked, result, last_sample, sleeps, slept>>

\* get_sample, first probe: the window title.
GetTitle(desktops) ==
    /\ pc = "get_title"
    /\ \E d \in desktops :
         /\ desktop' = Some(d)
         /\ invoked' = <<TitleProbe>>
         /\ \E r \in {get_command_output(d.title)} :
              IF r.ok
              THEN Continue("get_pid", [NoLocals EXCEPT !.window_title = r.val])
              ELSE Fail(r.err)
    /\ UNCHANGED <<config, sleeps, slept, host>>

\* Mutant of GetPid: a pid text that does not parse counts as pid 0.
GetPidUnchecked ==
    /\ pc = "get_pid"
    /\ invoked' = Append(invoked, PidProbe)
    /\ \E r \in {get_command_output(desktop[1].pid)} :
         IF ~r.ok THEN Fail(r.err)
         ELSE \E p \in {ParsePid(r.val)} :
                Continue("get_name", [loc EXCEPT !.pid_str = r.val, !.pid = p.val])
    /\ UNCHANGED <<config, desktop, sleeps, slept, host>>

\* get_sample, second probe: the window's pid, parsed as u32.
GetPid ==
    /\ pc = "get_pid"
    /\ invoked' = Append(invoked, PidProbe)
    /\ \E r \in {get_command_output(desktop[1].pid)} :
         IF ~r.ok THEN Fail(r.err)
         ELSE \E p \in {ParsePid(r.val)} :
                IF ~p.ok THEN Fail(SampleErr("ParseInt", p.err))
                ELSE Continue("get_name", [loc EXCEPT !.pid_str = r.val, !.pid = p.val])
    /\ UNCHANGED <<config, desktop, sleeps, slept, host>>

\* get_sample, third probe: the process name of the pid text.
GetName ==
    /\ pc = "get_name"
    /\ invoked' = Append(invoked, NameProbe(loc.pid_str))
    /\ \E r \in {get_command_output(desktop[1].name)} :
         IF ~r.ok THEN Fail(r.err)
         ELSE Continue("get_saver", [loc EXCEPT !.process_name = r.val])
    /\ UNCHANGED <<config, desktop, sleeps, slept, host>>

\* get_sample, fourth probe: the screensaver status.
GetSaver ==
    /\ pc = "get_saver"
    /\ invoked' = Append(invoked, SaverProbe)
    /\ \E r \in {get_command_output(desktop[1].saver)} :
         IF ~r.ok THEN Fail(r.err)
         ELSE Continue("get_idle",
                       [loc EXCEPT !.screensaver_active = ScreensaverActive(r.val)])
    /\ UNCHANGED <<config, desktop, sleeps, slept, host>>

\* get_sample, fifth probe: the idle time, parsed as u128 and compared with
\* the interval; then the Ok arm of main.
GetIdle ==
    /\ pc = "get_idle"
    /\ invoked' = Append(invoked, IdleProbe)
    /\ \E r \in {get_command_output(desktop[1].idle)} :
         IF ~r.ok THEN Fail(r.err)
         ELSE \E p \in {ParseIdleTime(r.val)} :
                IF ~p.ok THEN Fail(SampleErr("ParseInt", p.err))
                ELSE \E sample \in {Sample(loc.window_title, loc.pid, loc.process_name,
                                           loc.screensaver_active,
                                           IsIdle(p.val, config[1].sample_interval))} :
                       Succeed(sample)
    /\ UNCHANGED <<config, desktop, sleeps, slept, host>>

\* Mutant of Sleep: the loop sleeps the default interval, not the configured one.
SleepDefaultInterval ==
    /\ pc = "sleep"
    /\ sleeps < MaxSleeps
    /\ sleeps' = sleeps + 1
    /\ slept' = Append(slept, DefaultSampleInterval)
    /\ pc' = "get_title"
    /\ desktop' = None
    /\ invoked' = <<>>
    /\ UNCHANGED <<config, loc, result, last_sample, stdout, stderr, host>>

\* thread::sleep(sample_interval), then the loop head.
Sleep ==
    /\ pc = "sleep"
    /\ sleeps < MaxSleeps
    /\ sleeps' = sleeps + 1
    /\ slept' = Append(slept, config[1].sample_interval)
    /\ pc' = "get_title"
    /\ desktop' = None
    /\ invoked' = <<>>
    /\ UNCHANGED <<config, loc, result, last_sample, stdout, stderr, host>>

--------------------------------------------------------------------------
(* The hosts and desktops the model runs the program on *)

Quiet(bytes) == Answer("Ok", 0, bytes)
Missing == Answer("NotFound", 0, <<>>)
NotExecutable == Answer("PermissionDenied", 0, <<>>)

\* A desktop: the answer each of the five commands gives during one tick.
Desktop(title, pid, name, saver, idle) ==
    [title |-> title, pid |-> pid, name |-> name, saver |-> saver, idle |-> idle]

SaverInactiveText ==
    <<"T", "h", "e", " ", "s", "c", "r", "e", "e", "n", "s", "a", "v", "e", "r", " ",
      "i", "s", " ", "i", "n", "a", "c", "t", "i", "v", "e", "\n">>
SaverActiveText ==
    <<"T", "h", "e", " ", "s", "c", "r", "e", "e", "n", "s", "a", "v", "e", "r", " ",
      "i", "s", " ", "a", "c", "t", "i", "v", "e", "\n">>

\* A terminal in front, unlocked, used two seconds ago.
BaseDesktop ==
    Desktop(Quiet(<<"T", "e", "r", "m", "i", "n", "a", "l", "\n">>),
            Quiet(<<"4", "8", "2", "1", "\n">>),
            Quiet(<<"b", "a", "s", "h", "\n">>),
            Quiet(SaverInactiveText),
            Quiet(<<"2", "0", "0", "0", "\n">>))

\* Desktops every probe of which succeeds.
GoodDesktops ==
    { BaseDesktop,
      [BaseDesktop EXCEPT !.title = Quiet(<<"v", "i", "m">>)],
      [BaseDesktop EXCEPT !.pid = Quiet(<<"+", "0", "7">>)],
      [BaseDesktop EXCEPT !.pid = Quiet(<<OghamSpaceMark, "4", "2">>)],
      [BaseDesktop EXCEPT !.name = Quiet(<<"v", "i", "m">>)],
      [BaseDesktop EXCEPT !.name = Answer("Ok", 1, <<" ", "b", "a", "s", "h">>)],
      [BaseDesktop EXCEPT !.saver = Quiet(SaverActiveText)],
      [BaseDesktop EXCEPT !.idle = Quiet(<<"5", "0", "0", "1">>)],
      [BaseDesktop EXCEPT !.saver = Quiet(<<>>), !.idle = Quiet(<<"5", "0", "0", "1">>)],
      [BaseDesktop EXCEPT !.title = Quiet(<<"v", "i", "m">>),
                          !.saver = Quiet(SaverActiveText)],
      [BaseDesktop EXCEPT !.title = Quiet(<<"a", "\n", "b", "\n">>)] }

\* Desktops on which one step of get_sample fails.
BadDesktops ==
    { [BaseDesktop EXCEPT !.title = Missing],
      [BaseDesktop EXCEPT !.pid = Quiet(<<"a", "b", "c">>)],
      [BaseDesktop EXCEPT !.pid = Quiet(<<"4", "2", "9", "4", "9", "6", "7", "2", "9", "6">>)],
      [BaseDesktop EXCEPT !.name = Quiet(<<"b", BadByte, "h">>)],
      [BaseDesktop EXCEPT !.saver = Missing],
      [BaseDesktop EXCEPT !.idle = Quiet(<<>>)] }

Desktops == GoodDesktops \cup BadDesktops

HomeDir == <<"/", "h">>
ConfigDir == <<"/", "h", "/", ".", "c", "o", "n", "f", "i", "g">>

\* The hosts: no configuration file; a file that sets sample_interval = 2;
\* a file with sample_interval = -1; a file that is not TOML; no
\* configuration directory; no home directory.
ConfigEnvs ==
    { ConfigEnv(Some(ConfigDir), Some(HomeDir), FALSE, TRUE, None),
      ConfigEnv(Some(ConfigDir), Some(HomeDir), TRUE, TRUE,
                Some(TomlTable(Some(TomlInteger(FALSE, <<2>>)), None, None))),
      ConfigEnv(Some(ConfigDir), Some(HomeDir), TRUE, TRUE,
                Some(TomlTable(Some(TomlInteger(TRUE, <<1>>)), None, None))),
      ConfigEnv(Some(ConfigDir), Some(HomeDir), TRUE, TRUE, None),
      ConfigEnv(None, Some(HomeDir), FALSE, TRUE, None),
      ConfigEnv(Some(ConfigDir), None, FALSE, TRUE, None) }

--------------------------------------------------------------------------
(* The program *)

Init ==
    /\ pc = "start"
    /\ config = None
    /\ desktop = None
    /\ loc = NoLocals
    /\ invoked = <<>>
    /\ result = None
    /\ last_sample = None
    /\ stdout = <<>>
    /\ stderr = <<>>
    /\ sleeps = 0
    /\ slept = <<>>
    /\ host = None

Next ==
    \/ LoadConfig(ConfigEnvs)
    \/ GetTitle(Desktops)
    \/ GetPid
    \/ GetName
    \/ GetSaver
    \/ GetIdle
    \/ Sleep

Spec == Init /\ [][Next]_vars

--------------------------------------------------------------------------
(* What the claims speak of *)

\* The standard output lines written by the loop: all but the Config line.
TickLines == IF stdout = <<>> THEN <<>> ELSE Tail(stdout)

\* The diagnostics of failed ticks on standard error.
IsSampleDiag(l) == l.what = "Error fetching data"
SampleDiags == SelectSeq(stderr, IsSampleDiag)

\* This step ends a tick: get_sample returns and main's match arm runs.
TickEnds == pc # "sleep" /\ pc' = "sleep"
TickSucceeds == TickEnds /\ result'[1].ok
TickFails == TickEnds /\ ~result'[1].ok

\* The sample of the tick that this step ends.
NewSample == result'[1].sample[1]

\* This step writes exactly the line l to standard output.
Emits(l) == stdout' = Append(stdout, l)
EmitsALine == Len(stdout') = Len(stdout) + 1

\* The tick before the one this step ends succeeded.
PreviousTickSucceeded == result # None /\ result[1].ok

\* C1: a successful tick emits exactly one line when its sample differs from
\* the slot's content in any field and none when it equals it; so from an
\* empty slot, with no failure, ticks a, b leave two lines when a # b and one
\* line when a = b.
C1_EmitIffChanged ==
    [][TickSucceeds =>
         /\ (last_sample # Some(NewSample)) => EmitsALine
         /\ (last_sample = Some(NewSample)) => stdout' = stdout
         /\ (sleeps = 1 /\ PreviousTickSucceeded) =>
              Len(TickLines') = IF result[1].sample[1] = NewSample THEN 1 ELSE 2]_vars

\* C2: a tick that succeeds when no tick has succeeded since startup or
\* since the last failed tick writes its sample to standard output, after
\* what was written before, whatever was written before the failure.
C2_EmitAfterFailure ==
    [][(TickSucceeds /\ (~PreviousTickSucceeded \/ last_sample = None)) =>
         /\ Len(stdout') > Len(stdout)
         /\ SubSeq(stdout', 1, Len(stdout)) = stdout
         /\ NewSample.screensaver_active =>
               stdout'[Len(stdout')] = <<"s", "c", "r", "e", "e", "n", "s", "a", "v", "e", "r">>
         /\ ~NewSample.screensaver_active => stdout'[Len(stdout) + 1][1] = "'"
         /\ last_sample' = Some(NewSample)]_vars

\* Ticks a, failure, a: the line of a has been written twice.
C2_Witness ==
    /\ pc = "sleep" /\ sleeps = 2 /\ result[1].ok
    /\ Len(SampleDiags) = 1
    /\ Len(TickLines) = 2
    /\ TickLines[1] = TickLines[2]
    /\ ~last_sample[1].screensaver_active

\* C3: a tick in which sampling fails writes nothing to standard output,
\* writes one diagnostic to standard error and leaves the slot empty.
C3_FailedTick ==
    [][TickFails =>
         /\ stdout' = stdout
         /\ Len(stderr') = Len(stderr) + 1
         /\ SubSeq(stderr', 1, Len(stderr)) = stderr
         /\ IsSampleDiag(stderr'[Len(stderr')])
         /\ last_sample' = None]_vars

\* The pid text "abc" has failed a tick that followed a successful one.
C3_Witness ==
    /\ pc = "sleep" /\ sleeps = 1
    /\ Len(TickLines) = 1
    /\ Trim(desktop[1].pid.bytes) = <<"a", "b", "c">>
    /\ result[1].err = SampleErr("ParseInt", "InvalidDigit")
    /\ Len(SampleDiags) = 1
    /\ last_sample = None

\* C4: the slot is empty when no tick has ended yet or the last tick to end
\* failed, and otherwise holds the sample of the last tick to end.
C4_SlotTracksLatest ==
    IF result = None THEN last_sample = None
    ELSE IF result[1].ok THEN last_sample = result[1].sample
         ELSE last_sample = None

\* A second tick has produced the sample of the first: nothing was written
\* and the slot holds that sample.
C4_Witness ==
    /\ pc = "sleep" /\ sleeps = 1 /\ SampleDiags = <<>>
    /\ Len(TickLines) = 1
    /\ result[1].ok
    /\ last_sample = result[1].sample

\* C5: a line emitted for a sample whose screensaver_active is true is
\* exactly "screensaver".
C5_ScreensaverLine ==
    [][(TickSucceeds /\ stdout' # stdout /\ NewSample.screensaver_active) =>
         Emits(<<"s", "c", "r", "e", "e", "n", "s", "a", "v", "e", "r">>)]_vars

\* "screensaver" was written for a sample that is idle and whose window is vim.
C5_Witness ==
    /\ pc = "sleep" /\ result[1].ok
    /\ last_sample[1].screensaver_active
    /\ last_sample[1].window_title = <<"v", "i", "m">>
    /\ Len(TickLines) = 2
    /\ TickLines[2] = <<"s", "c", "r", "e", "e", "n", "s", "a", "v", "e", "r">>
    /\ TickLines[1] = TickLines[2]

\* The line of a sample that is not behind the screensaver, without suffix.
WindowLine(s) ==
    <<"'">> \o s.window_title \o <<"'">> \o <<" ">> \o <<"(">> \o <<"[">>
    \o [i \in 1 .. Len(s.pid) |-> DigitChars[s.pid[i] + 1]]
    \o <<"]">> \o <<" ">> \o s.process_name \o <<")">>

\* C6: a line emitted for a sample whose screensaver_active is false is
\* '<window_title>' ([<pid>] <process_name>), followed by " (idle)" when the
\* sample is idle and by nothing when it is not.
C6_WindowLine ==
    [][(TickSucceeds /\ stdout' # stdout /\ ~NewSample.screensaver_active) =>
         /\ NewSample.idle =>
              Emits(WindowLine(NewSample) \o <<" ", "(", "i", "d", "l", "e", ")">>)
         /\ ~NewSample.idle => Emits(WindowLine(NewSample))]_vars

--------------------------------------------------------------------------
(* get_sample alone, on any interval and a wider range of answers *)

\* Any Duration::from_secs of a u64, the bounds of i64 and u64 among them.
SampleIntervals == {<<0>>, <<1>>, <<5>>, I64Max, U64Max}

\* Idle times in milliseconds, around 1000 times each interval and u128::MAX.
IdleValues ==
    { <<0>>, <<1>>, <<9, 9, 9>>, <<1, 0, 0, 0>>, <<1, 0, 0, 1>>,
      <<4, 9, 9, 9>>, <<5, 0, 0, 0>>, <<5, 0, 0, 1>>,
      I64Max \o <<0, 0, 0>>, I64Max \o <<0, 0, 1>>,
      <<1, 8, 4, 4, 6, 7, 4, 4, 0, 7, 3, 7, 0, 9, 5, 5, 1, 6, 1, 6>>,
      <<1, 8, 4, 4, 6, 7, 4, 4, 0, 7, 3, 7, 0, 9, 5, 5, 1, 6, 1, 4, 9, 9, 9>>,
      U64Max \o <<0, 0, 0>>, U64Max \o <<0, 0, 1>>,
      U128Max,
      <<3, 4, 0, 2, 8, 2, 3, 6, 6, 9, 2, 0, 9, 3, 8, 4, 6, 3, 4, 6,
        3, 3, 7, 4, 6, 0, 7, 4, 3, 1, 7, 6, 8, 2, 1, 1, 4, 5, 6>> }

\* What xprintidle may write: a number and a newline, a number with a sign
\* or leading zeros, nothing, or something that is no number.
IdleTexts ==
    { FormatUnsigned(n) \o <<"\n">> : n \in IdleValues }
    \cup { <<"+", "5", "0", "0", "1">>, <<"0", "5", "0", "0", "0">>, <<>>,
           <<"1", "2", "x">>, <<"-", "1">> }

\* What gnome-screensaver-command -q may write.
SaverTexts ==
    { SaverInactiveText, SaverActiveText, <<>>, <<"\n">>,
      <<"a", "c", "t", "i", "v", "e">>,
      <<"i", "n", "a", "c", "t", "i", "v", "e">>,
      <<"I", "n", "a", "c", "t", "i", "v", "e">>,
      <<"i", "n", "a", "c", "t", "i", "v">>,
      <<"i", "n", " ", "a", "c", "t", "i", "v", "e">>,
      <<"x", "i", "n", "a", "c", "t", "i", "v", "e", "x", "\n">> }

ProbeNames == {"title", "pid", "name", "saver", "idle"}

\* Desktops on which one command cannot be started, or writes bytes that
\* are not UTF-8, with status 0 or not.
UnansweredDesktops ==
    { [BaseDesktop EXCEPT ![f] = a] :
        f \in ProbeNames,
        a \in {Missing, NotExecutable, Quiet(<<"x", BadByte>>),
               Answer("Ok", 1, <<BadByte, "\n">>)} }

\* Desktops on which more than one step of get_sample would fail.
TwiceBadDesktops ==
    { [BaseDesktop EXCEPT !.title = Missing, !.pid = Quiet(<<"a", "b", "c">>)],
      [BaseDesktop EXCEPT !.title = Quiet(<<BadByte>>), !.name = Missing],
      [BaseDesktop EXCEPT !.pid = Quiet(<<"a", "b", "c">>), !.saver = Missing],
      [BaseDesktop EXCEPT !.pid = Quiet(<<"-", "1">>), !.name = Quiet(<<BadByte>>)],
      [BaseDesktop EXCEPT !.name = Quiet(<<"b", BadByte, "h">>),
                          !.idle = Quiet(<<"1", "2", "x">>)],
      [BaseDesktop EXCEPT !.saver = Missing, !.idle = Quiet(<<BadByte>>)] }

\* Desktops on which commands exit with a non-zero status: one of the five,
\* all five, xdotool printing nothing when it finds no window, and all five
\* with a process name padded with U+1680.
ExitDesktops ==
    { [BaseDesktop EXCEPT ![f] = Answer("Ok", 1, BaseDesktop[f].bytes)] : f \in ProbeNames }
    \cup { [f \in ProbeNames |-> Answer("Ok", st, BaseDesktop[f].bytes)] : st \in {1, 255} }
    \cup { [BaseDesktop EXCEPT !.title = Answer("Ok", 1, <<>>)],
           [BaseDesktop EXCEPT !.title = Answer("Ok", 1, <<>>), !.pid = Answer("Ok", 1, <<>>)],
           [[f \in ProbeNames |-> Answer("Ok", 2, BaseDesktop[f].bytes)]
              EXCEPT !.name = Answer("Ok", 2, <<OghamSpaceMark, "v", "i", "m", OghamSpaceMark, "\n">>)] }

\* Desktops whose commands pad their output with white space other than
\* the space and the newline, U+1680 among it.
PaddedDesktops ==
    { [BaseDesktop EXCEPT !.title = Quiet(<<"\f", "v", "i", "m", "\f", "\n">>)],
      [BaseDesktop EXCEPT !.title = Quiet(<<NoBreakSpace, "x">>)],
      [BaseDesktop EXCEPT !.pid = Quiet(<<VerticalTab, "7", NextLine, "\r", "\n">>)],
      [BaseDesktop EXCEPT !.name = Quiet(<<"a", "\f", "b", "\t">>)],
      [BaseDesktop EXCEPT !.name = Quiet(<<"a", "\n", "b", "\n">>)],
      [BaseDesktop EXCEPT !.title = Quiet(<<"a", "\n", "\n", "b">>),
                          !.idle = Quiet(<<"5", "0", "0", "1">>)],
      [BaseDesktop EXCEPT !.pid = Quiet(<<OghamSpaceMark, "4", "2">>)],
      [BaseDesktop EXCEPT !.idle = Quiet(<<"7", OghamSpaceMark>>)],
      [BaseDesktop EXCEPT !.name = Quiet(<<OghamSpaceMark, "v", "i", "m", OghamSpaceMark>>)],
      [BaseDesktop EXCEPT !.title = Quiet(<<"a", OghamSpaceMark, "b", OghamSpaceMark, "\n">>),
                          !.saver = Quiet(<<OghamSpaceMark>>)] }

WideDesktops ==
    { [BaseDesktop EXCEPT !.saver = Quiet(sv), !.idle = Quiet(it)] :
        sv \in SaverTexts, it \in IdleTexts }
    \cup BadDesktops \cup UnansweredDesktops \cup TwiceBadDesktops \cup ExitDesktops
    \cup PaddedDesktops

\* main at the head of its loop, with a configuration of any interval.
InitSample ==
    /\ pc = "get_title"
    /\ \E i \in SampleIntervals :
         /\ config = Some(Config(Join(HomeDir, DbFileName), "Sqlite", i))
         /\ stdout = <<ConfigLine(Config(Join(HomeDir, DbFileName), "Sqlite", i))>>
    /\ desktop = None
    /\ loc = NoLocals
    /\ invoked = <<>>
    /\ result = None
    /\ last_sample = None
    /\ stderr = <<>>
    /\ sleeps = 0
    /\ slept = <<>>
    /\ host = None

NextSample ==
    \/ GetTitle(WideDesktops)
    \/ GetPid
    \/ GetName
    \/ GetSaver
    \/ GetIdle

SpecSample == InitSample /\ [][NextSample]_vars

\* The value of a short digit sequence.
RECURSIVE ToInt(_)
ToInt(ds) == IF ds = <<>> THEN 0 ELSE 10 * ToInt(SubSeq(ds, 1, Len(ds) - 1)) + ds[Len(ds)]

\* m div 1000 and m mod 1000 of a canonical digit sequence
Thousands(m) == IF Len(m) <= 3 THEN <<0>> ELSE SubSeq(m, 1, Len(m) - 3)
Units(m) == IF Len(m) <= 3 THEN ToInt(m) ELSE ToInt(SubSeq(m, Len(m) - 2, Len(m)))

\* m > i * 1000, by division: m div 1000 > i, or m div 1000 = i and m mod 1000 > 0
ExceedsInterval(m, i) ==
    \/ NumLess(i, Thousands(m))
    \/ Thousands(m) = i /\ Units(m) > 0

\* The idle time measured in the tick that has just ended.
MeasuredIdle == ParseIdleTime(Trim(desktop[1].idle.bytes)).val

\* C7: the idle field of a sample is true iff the measured idle time in
\* milliseconds exceeds 1000 times the interval in seconds, with equality
\* giving false, for intervals up to u64::MAX and idle times up to u128::MAX.
C7_IdleIffExceeds ==
    (pc = "sleep" /\ result[1].ok) =>
        LET m == MeasuredIdle
            i == config[1].sample_interval
            idle == result[1].sample[1].idle
        IN  /\ idle <=> ExceedsInterval(m, i)
            /\ (Len(i) <= 5 /\ Len(m) <= 9) => (idle <=> ToInt(m) > ToInt(i) * 1000)
            /\ (Thousands(m) = i /\ Units(m) = 0) => ~idle

\* An idle time of exactly u64::MAX * 1000 ms under an interval of u64::MAX
\* seconds gave idle = false.
C7_Witness ==
    /\ pc = "sleep" /\ result[1].ok
    /\ config[1].sample_interval = U64Max
    /\ MeasuredIdle = U64Max \o <<0, 0, 0>>
    /\ ~result[1].sample[1].idle

\* The text holds the letters i, n, a, c, t, i, v, e in a row.
HasInactive(text) ==
    \E i \in 1 .. (Len(text) - 7) :
        /\ text[i] = "i" /\ text[i + 1] = "n" /\ text[i + 2] = "a" /\ text[i + 3] = "c"
        /\ text[i + 4] = "t" /\ text[i + 5] = "i" /\ text[i + 6] = "v" /\ text[i + 7] = "e"

\* The text the screensaver probe returned in the current tick.
SaverText == Trim(desktop[1].saver.bytes)
SaverAnswered == desktop[1].saver.spawned /\ ValidUtf8(desktop[1].saver.bytes)

\* C8: screensaver_active is false iff the text the screensaver probe
\* returned contains "inactive"; the empty text and "active" give true; a
\* probe that returned a text never fails the fourth step of the sampler.
C8_ScreensaverIffNotInactive ==
    /\ pc = "get_idle" =>
         /\ loc.screensaver_active <=> ~HasInactive(SaverText)
         /\ SaverText \in {<<>>, <<"a", "c", "t", "i", "v", "e">>} => loc.screensaver_active
    /\ (pc = "sleep" /\ result[1].ok) =>
         (result[1].sample[1].screensaver_active <=> ~HasInactive(SaverText))
    /\ (pc = "sleep" /\ Len(invoked) = 4) => ~SaverAnswered

\* A sample was built from an empty screensaver text: screensaver_active.
C8_Witness ==
    /\ pc = "sleep" /\ result[1].ok
    /\ SaverText = <<>>
    /\ result[1].sample[1].screensaver_active

--------------------------------------------------------------------------
(* The order of the probes, and the loop going on *)

\* The command answered with valid text.
Answered(o) == o.spawned /\ ValidUtf8(o.bytes)

\* The white space of Unicode that a text can hold: the controls U+0009 to
\* U+000D, the space, and U+0085, U+00A0, U+1680.
Blank == {"\t", "\n", VerticalTab, "\f", "\r", " ", NextLine, NoBreakSpace, OghamSpaceMark}

\* A text without its leading and trailing white space: what lies between
\* its first and its last character that is not white space.
Trimmed(s) ==
    LET keep == {i \in 1 .. Len(s) : s[i] \notin Blank}
    IN  IF keep = {} THEN <<>>
        ELSE SubSeq(s, CHOOSE i \in keep : \A j \in keep : i <= j,
                       CHOOSE i \in keep : \A j \in keep : j <= i)

\* Step k of get_sample succeeds on desktop d: its probe answers and, for
\* the pid and the idle time, the text parses.
StepSucceeds(d, k) ==
    CASE k = 1 -> Answered(d.title)
      [] k = 2 -> Answered(d.pid) /\ ParsePid(Trimmed(d.pid.bytes)).ok
      [] k = 3 -> Answered(d.name)
      [] k = 4 -> Answered(d.saver)
      [] k = 5 -> Answered(d.idle) /\ ParseIdleTime(Trimmed(d.idle.bytes)).ok

\* The five probes in the order of get_sample.
ProbeOrder(d) ==
    <<TitleProbe, PidProbe, NameProbe(Trimmed(d.pid.bytes)), SaverProbe, IdleProbe>>

StepPc == <<"get_title", "get_pid", "get_name", "get_saver", "get_idle">>

\* C9: the probes of a tick are invoked in the order title, pid, name,
\* screensaver, idle; each only after every earlier step succeeded; the tick
\* stops at its first failing step, and a Sample is produced only when all
\* five succeeded.
C9_ProbeOrder ==
    IF desktop = None THEN invoked = <<>>
    ELSE LET d == desktop[1]
             n == Len(invoked)
         IN  /\ n \in 1 .. 5
             /\ invoked = SubSeq(ProbeOrder(d), 1, n)
             /\ \A k \in 1 .. (n - 1) : StepSucceeds(d, k)
             /\ pc # "sleep" => (StepSucceeds(d, n) /\ n < 5 /\ pc = StepPc[n + 1])
             /\ pc = "sleep" =>
                  /\ result[1].ok <=> (n = 5 /\ StepSucceeds(d, 5))
                  /\ ~result[1].ok => ~StepSucceeds(d, n)

\* A pid text padded with U+1680 was parsed, ps was asked for 42 and the
\* tick went through all five probes.
C9_Witness ==
    /\ pc = "sleep" /\ result[1].ok
    /\ desktop[1].pid.bytes = <<OghamSpaceMark, "4", "2">>
    /\ Len(invoked) = 5
    /\ invoked[3] = NameProbe(<<"4", "2">>)

\* The desktops of the fair program: two that give a sample, and every
\* failing one.
FairDesktops ==
    {BaseDesktop, [BaseDesktop EXCEPT !.title = Quiet(<<"v", "i", "m">>)]} \cup BadDesktops

NextFair ==
    \/ LoadConfig(ConfigEnvs)
    \/ GetTitle(FairDesktops)
    \/ GetPid
    \/ GetName
    \/ GetSaver
    \/ GetIdle
    \/ Sleep

\* The program with every step it can take eventually taken: a child process
\* that was spawned returns, a sleep ends.
FairSpec == Init /\ [][NextFair]_vars /\ WF_vars(NextFair)

InLoop == pc \in {"get_title", "get_pid", "get_name", "get_saver", "get_idle", "sleep"}

\* C10: once in the loop main stays in it, and every tick that begins, up
\* to the last one the model follows, is followed by the beginning of the
\* next tick, whether it fails or succeeds.
C10_LoopGoesOn ==
    /\ [][InLoop => InLoop']_vars
    /\ \A k \in 0 .. (MaxSleeps - 1) :
         (pc = "get_title" /\ sleeps = k) ~> (pc = "get_title" /\ sleeps = k + 1)

\* A third tick begins after two failed ticks.
C10_Witness ==
    /\ pc = "get_title" /\ sleeps = 2
    /\ Len(SampleDiags) = 2
    /\ ~result[1].ok

--------------------------------------------------------------------------
(* The sleep between ticks *)

\* C11: between the end of a tick's work and the first probe of the next
\* tick main sleeps exactly once, for the configured sample interval,
\* whether the tick emitted a line, emitted none or failed: every tick ends
\* at the sleep without having slept, the sleep is asked for
\* config.sample_interval seconds and is the only way to the next tick's
\* first probe, and nothing else sleeps.
C11_OneSleepPerTick ==
    /\ [][/\ TickEnds => slept' = slept
          /\ (pc \in {"get_pid", "get_name", "get_saver", "get_idle"} /\ result' # result)
                => pc' = "sleep"
          /\ (pc = "sleep" /\ pc' # "sleep") =>
                /\ pc' = "get_title"
                /\ slept' = Append(slept, config[1].sample_interval)
                /\ UNCHANGED <<stdout, stderr, last_sample, result>>
          /\ (pc' = "get_title" /\ pc # "start") => pc = "sleep"
          /\ pc # "sleep" => slept' = slept]_vars
    /\ [](Len(slept) = sleeps)

\* Two sleeps of the configured two seconds, one after a tick that emitted
\* a line and one after a tick that failed.
C11_Witness ==
    /\ pc = "get_title" /\ slept = <<<<2>>, <<2>>>>
    /\ Len(TickLines) = 1
    /\ Len(SampleDiags) = 1

--------------------------------------------------------------------------
(* The kinds of sampling failure *)

\* The answers of desktop d in the order of get_sample.
AnswerOf(d, k) == <<d.title, d.pid, d.name, d.saver, d.idle>>[k]

\* Why an answer makes its step fail: the child did not start, its output
\* is not UTF-8, or (neither) its text is not a number of the width read.
CauseKind(o) ==
    IF ~o.spawned THEN "Io"
    ELSE IF ~ValidUtf8(o.bytes) THEN "FromUtf8"
    ELSE "ParseInt"

\* C12: a failed tick reports exactly one of three kinds, the kind of its
\* first failing step: Io when the child could not be started, FromUtf8 when
\* its output is not valid UTF-8, ParseInt when the pid or idle text is not
\* an in-range unsigned decimal integer; and that kind is the one on the
\* diagnostic line.
C12_FailureKinds ==
    (pc = "sleep" /\ ~result[1].ok) =>
        LET d == desktop[1]
            n == Len(invoked)
            e == result[1].err
        IN  /\ ~StepSucceeds(d, n)
            /\ \A k \in 1 .. (n - 1) : StepSucceeds(d, k)
            /\ e.kind \in {"Io", "FromUtf8", "ParseInt"}
            /\ e.kind = CauseKind(AnswerOf(d, n))
            /\ e.kind = "ParseInt" => n \in {2, 5}
            /\ stderr # <<>>
            /\ stderr[Len(stderr)] = ErrLine("Error fetching data", e.kind, e.detail)

\* The process name is not UTF-8 and the idle text is not a number: the
\* tick reports the decoding failure of the earlier step.
C12_Witness ==
    /\ pc = "sleep" /\ ~result[1].ok
    /\ Len(invoked) = 3
    /\ result[1].err.kind = "FromUtf8"
    /\ ~ValidUtf8(desktop[1].name.bytes)
    /\ ~ParseIdleTime(Trimmed(desktop[1].idle.bytes)).ok

\* The step whose probe was invoked last does not fail on its text: the
\* pid and idle texts parse, the other texts are taken as they are.
TextAccepted(d, k) ==
    CASE k = 2 -> ParsePid(Trimmed(d.pid.bytes)).ok
      [] k = 5 -> ParseIdleTime(Trimmed(d.idle.bytes)).ok
      [] OTHER -> TRUE

\* C13: a probe whose child started and wrote valid text returns that text,
\* trimmed, whatever the child's exit status: get_sample goes on with the
\* trimmed text, and a tick ends on such a probe only as a success, with no
\* diagnostic and no reset of the slot, unless the text fails to parse as a
\* number.
C13_ExitStatusIgnored ==
    /\ [](desktop # None =>
            LET d == desktop[1]
            IN  /\ pc = "get_pid" => loc.window_title = Trimmed(d.title.bytes)
                /\ pc = "get_name" => loc.pid_str = Trimmed(d.pid.bytes)
                /\ pc = "get_saver" => loc.process_name = Trimmed(d.name.bytes)
                /\ (pc = "sleep" /\ result[1].ok) =>
                      /\ result[1].sample[1].window_title = Trimmed(d.title.bytes)
                      /\ result[1].sample[1].process_name = Trimmed(d.name.bytes)
                /\ (pc = "sleep" /\ ~result[1].ok /\ Answered(AnswerOf(d, Len(invoked))))
                      => result[1].err.kind = "ParseInt")
    /\ [][(/\ TickEnds
           /\ Answered(AnswerOf(desktop'[1], Len(invoked')))
           /\ TextAccepted(desktop'[1], Len(invoked')))
          => /\ result'[1].ok
             /\ stderr' = stderr
             /\ last_sample' = Some(NewSample)]_vars

\* All five commands exited with a non-zero status, ps wrote vim between
\* two U+1680, and the tick gave the sample with the process name vim.
C13_Witness ==
    /\ pc = "sleep" /\ result[1].ok
    /\ \A k \in 1 .. 5 : AnswerOf(desktop[1], k).status # 0
    /\ desktop[1].name.bytes = <<OghamSpaceMark, "v", "i", "m", OghamSpaceMark, "\n">>
    /\ result[1].sample[1].window_title = <<"T", "e", "r", "m", "i", "n", "a", "l">>
    /\ result[1].sample[1].process_name = <<"v", "i", "m">>
    /\ last_sample = result[1].sample

--------------------------------------------------------------------------
(* The program on hosts with any configuration file *)

\* What a file may give for sample_interval: integers from -1 to i64::MAX,
\* -0, a float and a string.
IntervalValues ==
    { TomlInteger(FALSE, n) : n \in {<<0>>, <<1>>, <<2>>, <<5>>, <<3, 6, 0, 0>>, I64Max} }
    \cup { TomlInteger(TRUE, <<0>>), TomlInteger(TRUE, <<1>>), TomlInteger(TRUE, <<5>>),
           TomlFloat(FALSE, <<2>>), TomlString(<<"5">>) }

\* What a file may give for database_path: three strings, one of them with
\* characters that a Debug text escapes, and an integer.
PathValues ==
    { TomlString(<<"/", "d", "/", "t", ".", "d", "b">>), TomlString(<<>>),
      TomlString(<<"/", "d", "/", "a", "\"", "b", "\\", "c", "\t", "'">>),
      TomlString(<<"/", "d", "/", "҃", "΀", OghamSpaceMark, "Ҁ", "﻿", "", "ೀ", "࢏">>),
      TomlInteger(FALSE, <<3>>) }

\* What a file may give for database_type: "sqlite", two other strings and
\* an integer.
TypeValues ==
    { TomlString(SqliteName), TomlString(<<"m", "y", "s", "q", "l">>),
      TomlString(<<"S", "Q", "L", "i", "t", "e">>), TomlInteger(FALSE, <<1>>) }

\* A key of the file: absent, or present with one of the values.
OptionOf(values) == {None} \cup { Some(v) : v \in values }

\* The hosts: every file made of these keys, and the hosts of ConfigEnvs;
\* a file that cannot be read; no configuration directory and no home
\* directory at once; the home directories / and /h/.
WideConfigEnvs ==
    { ConfigEnv(Some(ConfigDir), Some(HomeDir), TRUE, TRUE, Some(TomlTable(si, dp, dt))) :
        si \in OptionOf(IntervalValues), dp \in OptionOf(PathValues),
        dt \in OptionOf(TypeValues) }
    \cup ConfigEnvs
    \cup { ConfigEnv(Some(ConfigDir), Some(HomeDir), TRUE, FALSE, None),
           ConfigEnv(None, None, FALSE, TRUE, None),
           ConfigEnv(Some(ConfigDir), Some(<<"/">>), FALSE, TRUE, None),
           ConfigEnv(Some(ConfigDir), Some(<<"/", "h", "/">>), TRUE, TRUE,
                     Some(TomlTable(Some(TomlInteger(FALSE, <<2>>)), None, None))) }

\* The desktops of the program on these hosts: one that gives a sample, one
\* idle for 5001 ms, one without xdotool.
ConfigDesktops ==
    { BaseDesktop,
      [BaseDesktop EXCEPT !.idle = Quiet(<<"5", "0", "0", "1">>)],
      [BaseDesktop EXCEPT !.title = Missing] }

NextConfig ==
    \/ LoadConfig(WideConfigEnvs)
    \/ GetTitle(ConfigDesktops)
    \/ GetPid
    \/ GetName
    \/ GetSaver
    \/ GetIdle
    \/ Sleep

SpecConfig == Init /\ [][NextConfig]_vars

\* load_config read the file of the host as a TOML table.
FileParsed ==
    /\ host # None
    /\ host[1].config_dir # None /\ host[1].home_dir # None
    /\ host[1].is_file /\ host[1].readable /\ host[1].toml # None

\* The file gives the key: Some(value) or None.
Supplied(key) == host[1].toml[1][key]

\* main panicked on the load error whose Debug text is msg.
LoadFailedWith(msg) ==
    /\ pc = "panicked" /\ config = None
    /\ stderr = <<ErrLine("panic", "Err", msg)>>

\* C14: when the file gives sample_interval, loading fails with the parse
\* error of sample_interval if the value is a negative integer or not an
\* integer; otherwise every configuration loaded has exactly the value
\* given as its sample_interval, and a load that fails does so on another
\* key.
C14_IntervalAsSupplied ==
    (FileParsed /\ Supplied("sample_interval") # None) =>
        LET v == Supplied("sample_interval")[1]
        IN  IF v.type # "integer" \/ (v.neg /\ v.mag # <<0>>)
            THEN LoadFailedWith("ParseError: sample_interval has to be a positive integer")
            ELSE /\ config # None => config[1].sample_interval = v.mag
                 /\ config = None =>
                       \/ LoadFailedWith("ParseError: database_path must be a filesystem path")
                       \/ LoadFailedWith("ParseError: database_type must be 'sqlite'")

\* The loop runs with i64::MAX seconds, as the file gave it.
C14_Witness ==
    /\ pc = "sleep" /\ FileParsed
    /\ Supplied("sample_interval") = Some(TomlInteger(FALSE, I64Max))
    /\ config[1].sample_interval = I64Max

\* C15: the sample_interval of every configuration handed to the loop is a
\* positive integer, at least one second; a file that gives a value that is
\* not a positive integer is rejected with the error "sample_interval has to
\* be a positive integer".
C15_PositiveInterval ==
    /\ config # None => NumGreater(config[1].sample_interval, <<0>>)
    /\ (FileParsed /\ Supplied("sample_interval") # None) =>
          LET v == Supplied("sample_interval")[1]
          IN  (v.type # "integer" \/ v.neg \/ v.mag = <<0>>) =>
                LoadFailedWith("ParseError: sample_interval has to be a positive integer")

--------------------------------------------------------------------------
(* Everything on standard output *)

\* The text l ends with the text suffix.
EndsWith(l, suffix) ==
    /\ Len(l) >= Len(suffix)
    /\ SubSeq(l, Len(l) - Len(suffix) + 1, Len(l)) = suffix

\* The text l begins with the text prefix.
StartsWith(l, prefix) ==
    /\ Len(l) >= Len(prefix)
    /\ SubSeq(l, 1, Len(prefix)) = prefix

\* l is '<window_title>' ([<pid>] <process_name>): a quote, a text, the
\* separator "' ([", decimal digits, "] ", a text, ")".
HasWindowForm(l) ==
    /\ StartsWith(l, <<"'">>)
    /\ EndsWith(l, <<")">>)
    /\ \E a \in 2 .. (Len(l) - 7) :
         /\ l[a] = "'" /\ l[a + 1] = " " /\ l[a + 2] = "(" /\ l[a + 3] = "["
         /\ \E b \in (a + 5) .. (Len(l) - 2) :
              /\ l[b] = "]" /\ l[b + 1] = " "
              /\ \A k \in (a + 4) .. (b - 1) : IsDigitChar(l[k])

IdleSuffix == <<" ", "(", "i", "d", "l", "e", ")">>

\* l is one of the two lines of a sample.
IsSampleLine(l) ==
    \/ l = <<"s", "c", "r", "e", "e", "n", "s", "a", "v", "e", "r">>
    \/ HasWindowForm(l)
    \/ /\ EndsWith(l, IdleSuffix)
       /\ HasWindowForm(SubSeq(l, 1, Len(l) - Len(IdleSuffix)))

\* C16: every line written to standard output since the start of the
\* process is "screensaver" or '<window_title>' ([<pid>] <process_name>)
\* with or without " (idle)".
C16_OnlySampleLines ==
    \A i \in 1 .. Len(stdout) : IsSampleLine(stdout[i])

--------------------------------------------------------------------------
(* Load errors *)

\* The file of the host gives the key a value that its field does not take.
BadInterval(v) == v.type # "integer" \/ (v.neg /\ v.mag # <<0>>)
BadPath(v) == v.type # "string"
BadType(v) == v.type # "string" \/ v.str # <<"s", "q", "l", "i", "t", "e">>

\* The host makes loading the configuration fail: no configuration
\* directory, no home directory, or a file that cannot be read, is not
\* TOML, or gives a key a value its field does not take.
LoadFails ==
    /\ host # None
    /\ \/ host[1].config_dir = None
       \/ host[1].home_dir = None
       \/ /\ host[1].is_file
          /\ \/ ~host[1].readable
             \/ host[1].toml = None
             \/ \E key \in {"sample_interval", "database_path", "database_type"} :
                  /\ Supplied(key) # None
                  /\ CASE key = "sample_interval" -> BadInterval(Supplied(key)[1])
                       [] key = "database_path" -> BadPath(Supplied(key)[1])
                       [] key = "database_type" -> BadType(Supplied(key)[1])

\* C17: when loading the configuration fails, for whichever reason, the
\* process ends before the loop starts: main panics with one line on
\* standard error, no probe is ever invoked, no line is ever written to
\* standard output, and the process takes no further step.
C17_LoadFailureIsFatal ==
    /\ [](LoadFails =>
            /\ pc = "panicked" /\ config = None
            /\ invoked = <<>> /\ desktop = None /\ result = None
            /\ stdout = <<>> /\ SampleDiags = <<>>
            /\ Len(stderr) = 1 /\ stderr[1].what = "panic"
            /\ sleeps = 0)
    /\ [][pc # "panicked"]_vars

\* The file gives sample_interval = 2 and database_type = "mysql": main
\* panicked on the parse error of database_type.
C17_Witness ==
    /\ FileParsed
    /\ Supplied("sample_interval") = Some(TomlInteger(FALSE, <<2>>))
    /\ Supplied("database_type") = Some(TomlString(<<"m", "y", "s", "q", "l">>))
    /\ LoadFailedWith("ParseError: database_type must be 'sqlite'")

--------------------------------------------------------------------------
(* Output events per tick *)

\* The ticks that have ended: each was followed by one sleep, but for the
\* one main is about to sleep after.
TicksEnded == sleeps + (IF pc = "sleep" THEN 1 ELSE 0)

\* The sequence t is the sequence s with one more element at its end.
OneMore(s, t) == Len(t) = Len(s) + 1 /\ SubSeq(t, 1, Len(s)) = s

\* C18: a tick produces at most one output event: a successful tick writes
\* at most one line to standard output and nothing to standard error, a
\* failed tick writes exactly one diagnostic to standard error and nothing
\* to standard output, and within a tick nothing is written before it ends;
\* so the sample lines and the diagnostics written never outnumber, taken
\* together, the ticks that have ended.
C18_OneEventPerTick ==
    /\ [][/\ TickSucceeds =>
                /\ stderr' = stderr
                /\ stdout' = stdout \/ OneMore(stdout, stdout')
          /\ TickFails =>
                /\ stdout' = stdout
                /\ OneMore(stderr, stderr')
                /\ IsSampleDiag(stderr'[Len(stderr')])
          /\ (InLoop /\ ~TickEnds) => (stdout' = stdout /\ stderr' = stderr)]_vars
    /\ [](Len(TickLines) + Len(SampleDiags) <= TicksEnded)

--------------------------------------------------------------------------
(* Defaults and overrides *)

\* The home and configuration directories of the host resolved.
DirsResolved == host # None /\ host[1].config_dir # None /\ host[1].home_dir # None

\* The file .timetrackd.db in the home directory of the host.
DefaultPath ==
    LET home == host[1].home_dir[1]
        file == <<".", "t", "i", "m", "e", "t", "r", "a", "c", "k", "d", ".", "d", "b">>
    IN  IF home[Len(home)] = "/" THEN home \o file ELSE home \o <<"/">> \o file

\* C19: a missing configuration file is not a load error: the loop starts
\* with the default configuration, whose sample_interval is 5 seconds, after
\* one notice on standard error; and a configuration loaded from a file has,
\* for each key the file omits, the default of that field and, for each key
\* the file gives, the value given, in that field only.
C19_DefaultsAndOverrides ==
    /\ (DirsResolved /\ ~host[1].is_file) =>
          /\ InLoop
          /\ config = Some([database_path |-> DefaultPath, database_type |-> "Sqlite",
                            sample_interval |-> <<5>>])
          /\ stderr # <<>> /\ stderr[1].what = "Could not load config file"
          /\ \A i \in 1 .. Len(slept) : slept[i] = <<5>>
    /\ (FileParsed /\ ~LoadFails) =>
          /\ InLoop /\ config # None
          /\ config[1].sample_interval =
                IF Supplied("sample_interval") = None THEN <<5>>
                ELSE Supplied("sample_interval")[1].mag
          /\ config[1].database_path =
                IF Supplied("database_path") = None THEN DefaultPath
                ELSE Supplied("database_path")[1].str
          /\ config[1].database_type = "Sqlite"

\* The file gives only database_path: the loop runs with that path and the
\* default interval of 5 seconds.
C19_Witness ==
    /\ pc = "sleep" /\ FileParsed
    /\ Supplied("sample_interval") = None /\ Supplied("database_type") = None
    /\ Supplied("database_path") = Some(TomlString(<<"/", "d", "/", "t", ".", "d", "b">>))
    /\ config = Some([database_path |-> <<"/", "d", "/", "t", ".", "d", "b">>,
                      database_type |-> "Sqlite", sample_interval |-> <<5>>])

====
